---- MODULE Spec2Model ----
(***************************************************************************)
(* Document-analysis pipeline of predictwise-ai: the POST /api/analyze     *)
(* handler (server/src/routes/analyze.js), the in-memory analysis cache,   *)
(* the prediction engine (server/src/services/aiAnalyzer.js) and the PDF / *)
(* OCR extraction services.                                                *)
(*                                                                         *)
(* Strings the code inspects character by character (digests, cache keys)  *)
(* are sequences of one-character strings.  Probabilities are integers in  *)
(* hundredths (0.82 is 82).                                                *)
(***************************************************************************)
EXTENDS Integers, Sequences, FiniteSets, TLC

VARIABLES
    cache,      \* cache.js: Map key -> {data, expiresAt, createdAt}
    now,        \* Date.now()
    jobs,       \* progressTracker: job id -> job
    apiKey,     \* process.env.OPENAI_API_KEY is set
    openai,     \* aiAnalyzer.js: the module's client, null until initialised
    pc,         \* position of each handler run
    req,        \* each run's request: files, validated body, useOCR
    loc,        \* each run's locals
    resp,       \* each run's HTTP response
    calls,      \* each run's calls into the services, in order
    worker,     \* ocrExtractor.js: the module's Tesseract worker, null until created
    keyrun,     \* a generateCacheKey experiment: a file list and a reordering
    airun,      \* an analyzeWithAI experiment: arguments, adapter reply, result
    aicalls,    \* successive analyzeWithAI calls in one process: arguments and results
    fbrun,      \* a generateFallbackPredictions experiment: arguments and result
    scanrun,    \* an extractTextFromScannedPDF experiment: what each library gives, result
    probe,      \* a cache experiment: the entries stored and the last lookup
    updates     \* updateProgress calls other callers of the tracker made: id, percent, late

vars == <<cache, now, jobs, apiKey, openai, pc, req, loc, resp, calls, worker, keyrun, airun,
          aicalls, fbrun, scanrun, probe, updates>>

NULL == [null |-> TRUE]

Min(a, b) == IF a < b THEN a ELSE b
Max(a, b) == IF a > b THEN a ELSE b

Range(s) == {s[i] : i \in DOMAIN s}

(***************************************************************************)
(* Bounds of the model.                                                    *)
(***************************************************************************)
MaxKeyFiles == 3

(***************************************************************************)
(* cache.js (appended to routes/analyze.js in this source tree)            *)
(***************************************************************************)

\* UTF-16 code unit of the characters a digest list holds; Array.prototype.sort
\* without a comparator orders strings by code units.
CodeUnit(c) ==
    CASE c = "-" -> 45
      [] c = "0" -> 48 [] c = "1" -> 49 [] c = "2" -> 50 [] c = "3" -> 51
      [] c = "4" -> 52 [] c = "5" -> 53 [] c = "6" -> 54 [] c = "7" -> 55
      [] c = "8" -> 56 [] c = "9" -> 57
      [] c = "a" -> 97 [] c = "b" -> 98 [] c = "c" -> 99 [] c = "d" -> 100
      [] c = "e" -> 101 [] c = "f" -> 102

RECURSIVE StrLess(_, _)
StrLess(a, b) ==
    IF b = <<>> THEN FALSE
    ELSE IF a = <<>> THEN TRUE
    ELSE IF CodeUnit(Head(a)) # CodeUnit(Head(b))
         THEN CodeUnit(Head(a)) < CodeUnit(Head(b))
         ELSE StrLess(Tail(a), Tail(b))

RECURSIVE InsertSorted(_, _)
InsertSorted(x, sorted) ==
    IF sorted = <<>> THEN <<x>>
    ELSE IF StrLess(x, Head(sorted)) THEN <<x>> \o sorted
    ELSE <<Head(sorted)>> \o InsertSorted(x, Tail(sorted))

\* list.sort()
RECURSIVE SortStrings(_)
SortStrings(list) ==
    IF list = <<>> THEN <<>>
    ELSE InsertSorted(Head(list), SortStrings(Tail(list)))

\* list.join(sep)
RECURSIVE Join(_, _)
Join(list, sep) ==
    IF list = <<>> THEN <<>>
    ELSE IF Len(list) = 1 THEN list[1]
    ELSE list[1] \o <<sep>> \o Join(Tail(list), sep)

\* s.substring(0, n)
Substring(s, n) == SubSeq(s, 1, Min(n, Len(s)))

HashPrefixLen == 32
ContextHashLen == 8

\* crypto.createHash('md5').update(x).digest('hex') on the inputs of the model:
\* the real digests of the sample buffers and context strings.
MD5(x) ==
    CASE
       x = "notes" ->
         <<"4","3","5","8","b","5","0","0","9","c","6","7","d","0","e","3","1","d","7","f","b","f","1","6","6","3","f","c","d","3","b","f">>
    [] x = "spaced" ->
         <<"7","d","a","a","5","d","f","1","a","f","b","0","9","f","7","b","9","b","5","b","e","4","a","f","d","0","9","5","c","6","2","6">>
    [] x = "blank" ->
         <<"8","e","1","5","6","2","5","d","6","c","1","5","8","e","c","4","8","f","3","7","4","e","f","b","7","7","b","d","2","7","1","4">>
    [] x = "paper" ->
         <<"7","e","3","f","6","6","0","4","8","0","a","b","1","6","4","0","d","e","8","0","2","4","c","2","0","0","b","5","a","4","d","3">>
    [] x = "scan" ->
         <<"5","3","a","e","f","e","c","0","8","1","7","0","b","2","e","b","e","d","9","8","1","a","0","a","8","6","d","0","d","b","e","0">>
    [] x = "page" ->
         <<"7","1","8","6","0","c","7","7","c","6","7","4","5","3","7","9","b","0","d","4","4","3","0","4","d","6","6","b","6","a","1","3">>
    [] x = "smudge" ->
         <<"7","1","6","3","8","9","8","a","4","9","a","6","5","6","b","f","8","3","a","f","6","7","e","d","e","8","8","f","f","b","8","f">>
    [] x = "Physics-Midterm" ->
         <<"c","b","5","e","3","9","0","0","3","a","9","9","5","3","5","2","6","3","4","4","4","6","0","7","a","6","5","d","3","1","f","0">>
    [] x = "Physics-Final" ->
         <<"d","f","0","8","5","e","a","d","7","b","c","a","8","3","6","f","2","5","8","5","d","6","f","b","1","c","6","1","4","0","7","6">>
    [] x = "Algorithms-Midterm" ->
         <<"8","1","7","2","c","e","5","c","8","d","5","8","2","9","8","4","f","9","8","f","9","6","b","e","a","0","c","2","d","9","a","f">>
    [] x = "Algorithms-Final" ->
         <<"3","5","2","c","4","b","1","8","1","4","4","7","8","8","5","8","4","1","6","b","5","e","a","b","2","0","9","a","0","5","7","a">>

generateFileHash(buffer) == MD5(buffer)

BadKeyNoSort(files, subject, examName) ==
    <<"analysis:">>
        \o Substring(Join([i \in DOMAIN files |-> generateFileHash(files[i].buffer)], "-"),
                     HashPrefixLen)
        \o <<":">> \o Substring(MD5(subject \o "-" \o examName), ContextHashLen)

generateCacheKey(files, subject, examName) ==
    LET fileHashes ==
            Join(SortStrings([i \in DOMAIN files |-> generateFileHash(files[i].buffer)]), "-")
        contextHash == Substring(MD5(subject \o "-" \o examName), ContextHashLen)
    IN  <<"analysis:">> \o Substring(fileHashes, HashPrefixLen) \o <<":">> \o contextHash

CACHE_TTL == 86400000
CleanupThreshold == 100

\* a sweep that removes nothing
SweepNothing(c, t) == c

\* a sweep that also removes the entries at the last instant of their lifetime
SweepAtExpiry(c, t) ==
    [k \in {k \in DOMAIN c : ~(t >= c[k].expiresAt)} |-> c[k]]

cleanupExpiredEntries(c, t) ==
    [k \in {k \in DOMAIN c : ~(t > c[k].expiresAt)} |-> c[k]]

\* a lookup that sweeps the whole cache when it meets an expired entry
GetAndSweep(c, key, t) ==
    IF key \notin DOMAIN c THEN [ret |-> NULL, cache |-> c]
    ELSE IF t > c[key].expiresAt
         THEN [ret |-> NULL, cache |-> cleanupExpiredEntries(c, t)]
         ELSE [ret |-> c[key].data, cache |-> c]

\* a lookup whose hit starts the lifetime of the entry anew
GetAndRefresh(c, key, t) ==
    IF key \notin DOMAIN c THEN [ret |-> NULL, cache |-> c]
    ELSE IF t > c[key].expiresAt
         THEN [ret |-> NULL, cache |-> [k \in DOMAIN c \ {key} |-> c[k]]]
         ELSE [ret |-> c[key].data,
               cache |-> [c EXCEPT ![key].expiresAt = t + (c[key].expiresAt - c[key].createdAt)]]

\* The value getCachedAnalysis returns and the cache it leaves.
getCachedAnalysis(c, key, t) ==
    IF key \notin DOMAIN c THEN [ret |-> NULL, cache |-> c]
    ELSE IF t > c[key].expiresAt
         THEN [ret |-> NULL, cache |-> [k \in DOMAIN c \ {key} |-> c[k]]]
         ELSE [ret |-> c[key].data, cache |-> c]

\* a store that leaves an entry already under the key as it is
CacheKeepsFirst(c, key, data, ttl, t) ==
    [k \in DOMAIN c \cup {key} |->
        IF k = key /\ key \notin DOMAIN c
        THEN [data |-> data, expiresAt |-> t + ttl, createdAt |-> t]
        ELSE c[k]]

\* a store that gives every entry the default lifetime
CacheWithDefaultTtl(c, key, data, ttl, t) ==
    [k \in DOMAIN c \cup {key} |->
        IF k = key THEN [data |-> data, expiresAt |-> t + CACHE_TTL, createdAt |-> t]
        ELSE c[k]]

cacheAnalysis(c, key, data, ttl, t) ==
    LET set == [k \in DOMAIN c \cup {key} |->
                    IF k = key THEN [data |-> data, expiresAt |-> t + ttl, createdAt |-> t]
                    ELSE c[k]]
    IN  IF Cardinality(DOMAIN set) > CleanupThreshold
        THEN cleanupExpiredEntries(set, t)
        ELSE set

(***************************************************************************)
(* services/aiAnalyzer.js: the prediction engine                           *)
(*                                                                         *)
(* A question is a sequence of words.  A raw (adapter-supplied) JSON       *)
(* object is a function from the field names it has to their values, so a  *)
(* missing field is a name outside its DOMAIN; JSON null is NULL.          *)
(***************************************************************************)

\* The questions of the model
Q_Sort == <<"Explain", "the", "algorithm", "for", "sorting", "an", "array", ".">>
Q_Net == <<"Define", "a", "neural", "network", "and", "the", "TCP", "protocol">>
Q_Para == <<"Write", "a", "description", "of", "the", "paragraph">>
Q_Entropy == <<"What", "is", "entropy", "?">>
Q_Twice == <<"Is", "sorting", "a", "stable", "Sorting", "?">>
Q_Survey == <<"Compare", "heap", "stack", "queue", "hash", "tree", "graph", "recursion",
              "greedy", "compiler", "parsing", "syntax", "thread">>

QuestionPool == {Q_Sort, Q_Net, Q_Para, Q_Entropy, Q_Twice, Q_Survey}

\* String.prototype.toLowerCase on the words of the model's vocabulary
LowerWord(w) ==
    CASE w = "Explain" -> "explain"
      [] w = "Algorithm" -> "algorithm"
      [] w = "Sorting" -> "sorting"
      [] w = "TCP" -> "tcp"
      [] OTHER -> w

toLowerCase(q) == [i \in DOMAIN q |-> LowerWord(q[i])]

\* Words of the vocabulary that hold a keyword inside them: includes() matches
\* substrings, not words.
Infixes ==
    {<<"processing", "process">>, <<"paragraph", "graph">>, <<"description", "ip">>}

WordIncludes(w, k) == w = k \/ <<w, k>> \in Infixes

\* lower.includes(kw): kw occurs as a substring
includes(lower, words) ==
    \E s \in 1..(Len(lower) - Len(words) + 1) :
        \A d \in 1..Len(words) :
            IF Len(words) = 1 THEN WordIncludes(lower[s + d - 1], words[d])
            ELSE lower[s + d - 1] = words[d]

\* the keywords of generateFallbackPredictions, with topic.charAt(0).toUpperCase()
\* + topic.slice(1) of each
keywords ==
    <<
       [kw |-> "algorithm", words |-> <<"algorithm">>, cap |-> "Algorithm"],
       [kw |-> "data structure", words |-> <<"data", "structure">>, cap |-> "Data structure"],
       [kw |-> "tree", words |-> <<"tree">>, cap |-> "Tree"],
       [kw |-> "graph", words |-> <<"graph">>, cap |-> "Graph"],
       [kw |-> "sorting", words |-> <<"sorting">>, cap |-> "Sorting"],
       [kw |-> "searching", words |-> <<"searching">>, cap |-> "Searching"],
       [kw |-> "array", words |-> <<"array">>, cap |-> "Array"],
       [kw |-> "linked list", words |-> <<"linked", "list">>, cap |-> "Linked list"],
       [kw |-> "stack", words |-> <<"stack">>, cap |-> "Stack"],
       [kw |-> "queue", words |-> <<"queue">>, cap |-> "Queue"],
       [kw |-> "hash", words |-> <<"hash">>, cap |-> "Hash"],
       [kw |-> "heap", words |-> <<"heap">>, cap |-> "Heap"],
       [kw |-> "complexity", words |-> <<"complexity">>, cap |-> "Complexity"],
       [kw |-> "recursion", words |-> <<"recursion">>, cap |-> "Recursion"],
       [kw |-> "dynamic programming", words |-> <<"dynamic", "programming">>, cap |-> "Dynamic programming"],
       [kw |-> "greedy", words |-> <<"greedy">>, cap |-> "Greedy"],
       [kw |-> "database", words |-> <<"database">>, cap |-> "Database"],
       [kw |-> "sql", words |-> <<"sql">>, cap |-> "Sql"],
       [kw |-> "normalization", words |-> <<"normalization">>, cap |-> "Normalization"],
       [kw |-> "transaction", words |-> <<"transaction">>, cap |-> "Transaction"],
       [kw |-> "operating system", words |-> <<"operating", "system">>, cap |-> "Operating system"],
       [kw |-> "process", words |-> <<"process">>, cap |-> "Process"],
       [kw |-> "thread", words |-> <<"thread">>, cap |-> "Thread"],
       [kw |-> "memory", words |-> <<"memory">>, cap |-> "Memory"],
       [kw |-> "scheduling", words |-> <<"scheduling">>, cap |-> "Scheduling"],
       [kw |-> "network", words |-> <<"network">>, cap |-> "Network"],
       [kw |-> "protocol", words |-> <<"protocol">>, cap |-> "Protocol"],
       [kw |-> "tcp", words |-> <<"tcp">>, cap |-> "Tcp"],
       [kw |-> "ip", words |-> <<"ip">>, cap |-> "Ip"],
       [kw |-> "routing", words |-> <<"routing">>, cap |-> "Routing"],
       [kw |-> "compiler", words |-> <<"compiler">>, cap |-> "Compiler"],
       [kw |-> "parsing", words |-> <<"parsing">>, cap |-> "Parsing"],
       [kw |-> "lexical", words |-> <<"lexical">>, cap |-> "Lexical"],
       [kw |-> "syntax", words |-> <<"syntax">>, cap |-> "Syntax"],
       [kw |-> "machine learning", words |-> <<"machine", "learning">>, cap |-> "Machine learning"],
       [kw |-> "neural network", words |-> <<"neural", "network">>, cap |-> "Neural network"],
       [kw |-> "classification", words |-> <<"classification">>, cap |-> "Classification"],
       [kw |-> "regression", words |-> <<"regression">>, cap |-> "Regression"]
    >>

KeywordCount == Len(keywords)

MaxPredictions == 10

\* the keywords (by place in the list) for which lower.includes(kw) holds
KeywordHits(q) ==
    {k \in DOMAIN keywords : includes(toLowerCase(q), keywords[k].words)}

\* KeywordHits of every question of the model, computed once
HitsOf == [q \in QuestionPool |-> KeywordHits(q)]

\* questions.forEach(q => keywords.forEach(kw => ...)): the value of topicCounts[kw]:
\* one for every question that includes kw
TopicCount(questions, k) ==
    Cardinality({i \in DOMAIN questions : k \in HitsOf[questions[i]]})

\* a set of places in keywords, in the order of the list
RECURSIVE Ascending(_)
Ascending(S) ==
    IF S = {} THEN <<>>
    ELSE LET m == CHOOSE x \in S : \A y \in S : x <= y
         IN  <<m>> \o Ascending(S \ {m})

\* the keys of topicCounts in the order they were created: by first matching
\* question and, within it, by place in keywords
RECURSIVE TopicOrder(_, _)
TopicOrder(questions, seen) ==
    IF questions = <<>> THEN <<>>
    ELSE LET fresh == HitsOf[Head(questions)] \ seen
         IN  Ascending(fresh) \o TopicOrder(Tail(questions), seen \cup fresh)

\* Object.entries(topicCounts)
TopicEntries(questions) ==
    LET order == TopicOrder(questions, {})
    IN  [n \in DOMAIN order |-> [k |-> order[n], count |-> TopicCount(questions, order[n])]]

\* no sorting: the entries stay in the order they were created
InsertInFront(e, sorted) == <<e>> \o sorted

\* entries.sort((a, b) => b[1] - a[1]): stable, by count descending
RECURSIVE InsertByCount(_, _)
InsertByCount(e, sorted) ==
    IF sorted = <<>> THEN <<e>>
    ELSE IF e.count >= Head(sorted).count THEN <<e>> \o sorted
    ELSE <<Head(sorted)>> \o InsertByCount(e, Tail(sorted))

RECURSIVE SortByCount(_)
SortByCount(entries) ==
    IF entries = <<>> THEN <<>>
    ELSE InsertByCount(Head(entries), SortByCount(Tail(entries)))

\* questions.find(q => q.toLowerCase().includes(topic)) || template
FindQuestion(questions, k) ==
    LET hits == {i \in DOMAIN questions : k \in HitsOf[questions[i]]}
    IN  IF hits = {} THEN <<"Explain the concept of", keywords[k].kw, "with examples">>
        ELSE questions[CHOOSE i \in hits : \A j \in hits : i <= j]

FallbackTrends ==
    [difficultyProgression |->
        << [year |-> "2021", easy |-> 5, medium |-> 8, hard |-> 4],
           [year |-> "2022", easy |-> 4, medium |-> 10, hard |-> 5],
           [year |-> "2023", easy |-> 6, medium |-> 7, hard |-> 6],
           [year |-> "2024", easy |-> 5, medium |-> 9, hard |-> 5],
           [year |-> "2025", easy |-> 7, medium |-> 6, hard |-> 6] >>]

defaultTopics ==
    << [topic |-> "Fundamentals", question |-> "Explain the fundamental concepts of"],
       [topic |-> "Core Principles",
        question |-> "Describe the core principles and their applications in"],
       [topic |-> "Problem Solving", question |-> "Solve a typical problem related to"],
       [topic |-> "Applications", question |-> "Discuss real-world applications of"],
       [topic |-> "Advanced Topics", question |-> "Analyze advanced concepts in"] >>

NoDefaultPredictions(subject) == <<>>

\* i is the 0-based index of the code
generateDefaultPredictions(subject) ==
    [n \in DOMAIN defaultTopics |->
        LET i == n - 1 IN
        [id |-> i + 1,
         topic |-> subject \o " - " \o defaultTopics[n].topic,
         question |-> <<defaultTopics[n].question, subject>>,
         difficulty |-> <<"Easy", "Medium", "Medium", "Hard", "Hard">>[n],
         probability |-> 70 - (i * 10),
         type |-> IF i % 2 = 0 THEN "Long Answer" ELSE "Short Answer",
         rationale |-> <<"Based on common exam patterns">>,
         section |-> IF i < 2 THEN "A" ELSE IF i < 4 THEN "B" ELSE "C"]]

generateFallbackPredictions(questions, subject) ==
    LET sorted == SortByCount(TopicEntries(questions))
        sortedTopics == SubSeq(sorted, 1, Min(MaxPredictions, Len(sorted)))
        predictions ==
            IF Len(sortedTopics) > 0
            THEN [n \in DOMAIN sortedTopics |->
                    LET i == n - 1
                        e == sortedTopics[n]
                    IN  [id |-> i + 1,
                         topic |-> keywords[e.k].cap,
                         question |-> FindQuestion(questions, e.k),
                         difficulty |-> IF i < 3 THEN "Easy" ELSE IF i < 7 THEN "Medium" ELSE "Hard",
                         probability |-> 90 - (i * 8),
                         type |-> IF i % 2 = 0 THEN "Long Answer" ELSE "Short Answer",
                         rationale |-> <<"This topic appeared", ToString(e.count),
                                         "times in the analyzed papers">>,
                         section |-> IF i < 3 THEN "A" ELSE IF i < 7 THEN "B" ELSE "C"]]
            ELSE generateDefaultPredictions(subject)
    IN  [predictions |-> predictions,
         summary |-> [n \in 1..Min(5, Len(predictions)) |-> predictions[n].topic],
         trends |-> FallbackTrends]

\* if (process.env.OPENAI_API_KEY && !openai) openai = new OpenAI(...)
OpenAIClient == [model |-> "gpt-4o-mini"]

initializeOpenAI(key, client) == IF key /\ client = NULL THEN OpenAIClient ELSE client

\* obj.field, `dflt` standing for undefined
Get(obj, field, dflt) == IF field \in DOMAIN obj THEN obj[field] ELSE dflt

\* obj.field is a truthy string: present (a JSON null counts as absent) and not ""
TruthyString(obj, field) == field \in DOMAIN obj /\ obj[field] # ""

\* the same for a field holding a text (a sequence of words)
TruthyText(obj, field) == field \in DOMAIN obj /\ obj[field] # <<>>

\* A JSON value that may or may not be a number carries its type
JsonNumber(n) == [number |-> n]
JsonString(str) == [string |-> str]

\* typeof v === 'number'
IsNumber(v) == "number" \in DOMAIN v

\* Math.min(1, Math.max(0, p)), in hundredths
Clamp01(p) == Min(100, Max(0, p))

Difficulties == {"Easy", "Medium", "Hard"}
Sections == {"A", "B", "C"}
RecognizedTypes == {"Short Answer", "Long Answer", "Numerical", "Derivation"}

NoClamp(p, i) ==
    [id |-> i + 1,
     topic |-> IF TruthyString(p, "topic") THEN p.topic ELSE "Unknown Topic",
     question |-> IF TruthyText(p, "question") THEN p.question
                  ELSE <<"Explain key concepts of", Get(p, "topic", "undefined")>>,
     difficulty |-> IF Get(p, "difficulty", "") \in Difficulties THEN p.difficulty ELSE "Medium",
     probability |-> IF IsNumber(Get(p, "probability", NULL))
                     THEN p.probability.number ELSE 50,
     type |-> IF TruthyString(p, "type") THEN p.type ELSE "Long Answer",
     rationale |-> IF TruthyText(p, "rationale") THEN p.rationale
                   ELSE <<"Based on historical pattern analysis">>,
     section |-> IF Get(p, "section", "") \in Sections THEN p.section ELSE "A"]

NoDomainCheck(p, i) ==
    [id |-> i + 1,
     topic |-> IF TruthyString(p, "topic") THEN p.topic ELSE "Unknown Topic",
     question |-> IF TruthyText(p, "question") THEN p.question
                  ELSE <<"Explain key concepts of", Get(p, "topic", "undefined")>>,
     difficulty |-> Get(p, "difficulty", "Medium"),
     probability |-> IF IsNumber(Get(p, "probability", NULL))
                     THEN Clamp01(p.probability.number) ELSE 50,
     type |-> IF TruthyString(p, "type") THEN p.type ELSE "Long Answer",
     rationale |-> IF TruthyText(p, "rationale") THEN p.rationale
                   ELSE <<"Based on historical pattern analysis">>,
     section |-> Get(p, "section", "A")]

\* parsed.predictions.map((p, i) => ({...})): one normalised record; i is 0-based
NormalizePrediction(p, i) ==
    [id |-> i + 1,
     topic |-> IF TruthyString(p, "topic") THEN p.topic ELSE "Unknown Topic",
     question |-> IF TruthyText(p, "question") THEN p.question
                  ELSE <<"Explain key concepts of", Get(p, "topic", "undefined")>>,
     difficulty |-> IF Get(p, "difficulty", "") \in Difficulties THEN p.difficulty ELSE "Medium",
     probability |-> IF IsNumber(Get(p, "probability", NULL))
                     THEN Clamp01(p.probability.number) ELSE 50,
     type |-> IF TruthyString(p, "type") THEN p.type ELSE "Long Answer",
     rationale |-> IF TruthyText(p, "rationale") THEN p.rationale
                   ELSE <<"Based on historical pattern analysis">>,
     section |-> IF Get(p, "section", "") \in Sections THEN p.section ELSE "A"]

\* The adapter is called: a client exists and there is a question
\* a request sent whenever there is a client
InvokedWithClient(client, questions) == client # NULL

AdapterInvoked(client, questions) == client # NULL /\ questions # <<>>

MissingArrayAccepted(reply) ==
    \/ reply.kind \in {"throw", "nochoice", "text"}
    \/ /\ reply.kind = "json"
       /\ \/ reply.value = NULL
          \/ /\ "predictions" \in DOMAIN reply.value
             /\ reply.value.predictions.array
             /\ \E n \in DOMAIN reply.value.predictions.items :
                    reply.value.predictions.items[n] = NULL

\* The try block of analyzeWithAI raises: the request rejects ("throw"), the reply
\* has no choices[0].message ("nochoice"), the content is no JSON ("text"), the
\* parsed value is null or has no predictions array, or a prediction is null (a
\* TypeError on p.topic)
AdapterFails(reply) ==
    \/ reply.kind \in {"throw", "nochoice", "text"}
    \/ /\ reply.kind = "json"
       /\ \/ reply.value = NULL
          \/ "predictions" \notin DOMAIN reply.value
          \/ ~reply.value.predictions.array
          \/ \E n \in DOMAIN reply.value.predictions.items :
                reply.value.predictions.items[n] = NULL

\* the value the code returns from the try block: parsed, its predictions replaced
AdapterResult(parsed) ==
    LET items == IF "predictions" \in DOMAIN parsed /\ parsed.predictions.array
                 THEN parsed.predictions.items ELSE <<>>
    IN  [f \in DOMAIN parsed \cup {"predictions"} |->
            IF f = "predictions"
            THEN [n \in DOMAIN items |-> NormalizePrediction(items[n], n - 1)]
            ELSE parsed[f]]

AdapterWithoutClient(client, questions, subject, examName, reply) ==
    IF Len(questions) = 0
    THEN generateFallbackPredictions(questions, subject)
    ELSE IF AdapterFails(reply)
         THEN generateFallbackPredictions(questions, subject)
         ELSE AdapterResult(reply.value)

\* analyzeWithAI, given the client initializeOpenAI returned and how the adapter
\* answers if it is called
analyzeWithAI(client, questions, subject, examName, reply) ==
    IF client = NULL \/ Len(questions) = 0
    THEN generateFallbackPredictions(questions, subject)
    ELSE IF AdapterFails(reply)
         THEN generateFallbackPredictions(questions, subject)
         ELSE AdapterResult(reply.value)

(***************************************************************************)
(* Sample inputs                                                           *)
(***************************************************************************)
Subjects == {"Physics", "Algorithms"}
Exams == {"Midterm", "Final"}

\* Adapter-supplied prediction objects: well formed, out of range, wrongly typed,
\* empty, and null
RawPredictions ==
    { [topic |-> "Kinematics", question |-> <<"Derive", "the", "range", "formula">>,
       difficulty |-> "Hard", probability |-> JsonNumber(85), type |-> "Numerical",
       rationale |-> <<"Asked every year">>, section |-> "B"],
      [topic |-> "Optics", difficulty |-> "Extreme", probability |-> JsonNumber(-20),
       type |-> "Essay", section |-> "D"],
      [topic |-> "", difficulty |-> "Easy", probability |-> JsonNumber(150), type |-> "",
       section |-> "C"],
      [probability |-> JsonString("high"), question |-> <<>>],
      NULL }

\* all sequences over S of length at most n
RECURSIVE SeqsUpTo(_, _)
SeqsUpTo(S, n) ==
    IF n = 0 THEN {<<>>}
    ELSE LET shorter == SeqsUpTo(S, n - 1)
         IN  shorter \cup {Append(s, x) : s \in shorter, x \in S}

MaxRawPredictions == 2
MaxAiQuestions == 2

AdapterSummary == <<"Kinematics", "Optics">>
AdapterTrends == [difficultyProgression |-> <<[year |-> "2024", easy |-> 1, medium |-> 2, hard |-> 3]>>]

\* What JSON.parse(content) may give
ParsedValues ==
    {NULL, [summary |-> AdapterSummary], [predictions |-> [array |-> FALSE], summary |-> AdapterSummary]}
    \cup {[predictions |-> [array |-> TRUE, items |-> items]] :
            items \in SeqsUpTo(RawPredictions, MaxRawPredictions)}
    \cup {[predictions |-> [array |-> TRUE, items |-> items],
           summary |-> AdapterSummary, trends |-> AdapterTrends] :
            items \in SeqsUpTo(RawPredictions, MaxRawPredictions)}

Replies ==
    {[kind |-> "throw"], [kind |-> "nochoice"], [kind |-> "text"]}
    \cup {[kind |-> "json", value |-> v] : v \in ParsedValues}

(***************************************************************************)
(* Texts.  The handler and the extractors look at a text's length, at its  *)
(* length without leading and trailing whitespace, and hand it on, so a    *)
(* text is its identity and its character counts:                          *)
(*   chars  characters that are not whitespace                             *)
(*   gaps   runs of whitespace between them                                *)
(*   ws     whitespace characters in those runs                            *)
(*   pad    leading and trailing whitespace characters                     *)
(*   clean  it went through cleanOCRText                                   *)
(***************************************************************************)
EmptyText == [id |-> "", chars |-> 0, gaps |-> 0, ws |-> 0, pad |-> 0, clean |-> FALSE]

\* text.length
TextLength(t) == t.chars + t.ws + t.pad

\* text.trim().length
TrimLength(t) == t.chars + t.ws

\* cleanOCRText on a text without OCR noise, percent escapes or broken words:
\* every run of whitespace becomes one blank (so the text is one line), a line of
\* at most 2 characters is dropped, and the result is trimmed
cleanOCRText(t) ==
    IF TextLength(t) = 0 THEN EmptyText
    ELSE IF t.chars + t.gaps <= 2 THEN EmptyText
    ELSE [id |-> t.id, chars |-> t.chars, gaps |-> t.gaps, ws |-> t.gaps, pad |-> 0,
          clean |-> TRUE]

\* '\n\n--- Page Break ---\n\n': 15 characters in 3 words, 7 of whitespace
PageBreakChars == 15
PageBreakWs == 7
PageBreakGaps == 5

\* pages.map(p => p.text).filter(t => t && t.trim().length > 0).join(PageBreak)
RECURSIVE JoinPages(_)
JoinPages(texts) ==
    IF texts = <<>> THEN EmptyText
    ELSE IF TrimLength(Head(texts)) = 0 THEN JoinPages(Tail(texts))
    ELSE LET rest == JoinPages(Tail(texts))
             h == Head(texts)
         IN  IF TextLength(rest) = 0 THEN h
             ELSE [id |-> h.id,
                   chars |-> h.chars + PageBreakChars + rest.chars,
                   gaps |-> h.gaps + PageBreakGaps + rest.gaps,
                   ws |-> h.ws + h.pad + PageBreakWs + rest.ws + rest.pad,
                   pad |-> 0,
                   clean |-> FALSE]

(***************************************************************************)
(* services/pdfExtractor.js                                                *)
(***************************************************************************)

\* what the bytes of a buffer are to the extraction backends
Documents ==
    [notes  |-> [kind |-> "text",
                 utf8 |-> [id |-> "notes", chars |-> 96, gaps |-> 19, ws |-> 19, pad |-> 1,
                           clean |-> FALSE]],
     spaced |-> [kind |-> "text",
                 utf8 |-> [id |-> "spaced", chars |-> 37, gaps |-> 6, ws |-> 18, pad |-> 0,
                           clean |-> FALSE]],
     blank  |-> [kind |-> "text",
                 utf8 |-> [id |-> "blank", chars |-> 8, gaps |-> 1, ws |-> 1, pad |-> 60,
                           clean |-> FALSE]],
     paper  |-> [kind |-> "pdf", header |-> TRUE, pageMatches |-> 2,
                 pdf2json |-> [success |-> TRUE, numPages |-> 2,
                               text |-> [id |-> "paper", chars |-> 400, gaps |-> 80, ws |-> 120,
                                         pad |-> 2, clean |-> FALSE]],
                 pdfjs |-> [success |-> TRUE, pages |-> <<>>]],
     scan   |-> [kind |-> "pdf", header |-> TRUE, pageMatches |-> 0,
                 pdf2json |-> [success |-> TRUE, numPages |-> 1, text |-> EmptyText],
                 pdfjs |-> [success |-> TRUE, pages |-> <<EmptyText>>]],
     page   |-> [kind |-> "image", recognized |-> TRUE, confidence |-> 87,
                 ocr |-> [id |-> "page", chars |-> 60, gaps |-> 11, ws |-> 14, pad |-> 3,
                          clean |-> FALSE]],
     smudge |-> [kind |-> "image", recognized |-> FALSE, confidence |-> 0, ocr |-> EmptyText]]

extractTextFromPDF(buffer) ==
    LET doc == Documents[buffer]
    IN  IF doc.kind # "pdf" \/ ~doc.header
        THEN [text |-> EmptyText, numPages |-> 0, error |-> "Invalid PDF file"]
        ELSE [text |-> EmptyText,
              numPages |-> IF doc.pageMatches > 0 THEN doc.pageMatches ELSE 1,
              error |-> ""]

\* a detection that never reports a scanned PDF
NeverScanned(extractedText, numPages) == FALSE

\* return true: every PDF takes the OCR path
isLikelyScannedPDF(extractedText, numPages) == TRUE

(***************************************************************************)
(* services/ocrExtractor.js (appended to services/aiAnalyzer.js in this    *)
(* source tree)                                                            *)
(***************************************************************************)
MinExtractedLength == 100

\* extractTextWithPdf2Json: the parser's answer for the buffer
extractTextWithPdf2Json(buffer) ==
    IF Documents[buffer].kind = "pdf" THEN Documents[buffer].pdf2json
    ELSE [success |-> FALSE, numPages |-> 0, text |-> EmptyText]

\* convertPDFToImagesWithPdfJs: the text layer of the first maxPages pages
convertPDFToImagesWithPdfJs(buffer, maxPages) ==
    IF Documents[buffer].kind = "pdf" /\ Documents[buffer].pdfjs.success
    THEN LET all == Documents[buffer].pdfjs.pages
             images == SubSeq(all, 1, Min(Len(all), maxPages))
         IN  [pages |-> images, numPages |-> Len(images), success |-> TRUE]
    ELSE [pages |-> <<>>, numPages |-> 0, success |-> FALSE]

\* what the catch of lines 523-531 returns: no method, no suggestion
CaughtResult ==
    [text |-> EmptyText, success |-> FALSE, pagesProcessed |-> 0, avgConfidence |-> 0,
     method |-> "", error |-> "extraction failed", suggestion |-> ""]

NoStrategyResult ==
    [text |-> EmptyText, success |-> FALSE, pagesProcessed |-> 0, avgConfidence |-> 0,
     method |-> "none",
     error |-> "PDF appears to be scanned (image-only). Text extraction not possible.",
     suggestion |-> "For scanned PDFs, please convert to images first"]

\* the strategy chain of extractTextFromScannedPDF on the two parsers' answers
ScannedPDFResult(pdf2jsonResult, pdfjsResult) ==
    IF /\ pdf2jsonResult.success
       /\ TextLength(pdf2jsonResult.text) > 0
       /\ TextLength(pdf2jsonResult.text) > MinExtractedLength
    THEN [text |-> cleanOCRText(pdf2jsonResult.text), success |-> TRUE,
          pagesProcessed |-> pdf2jsonResult.numPages, avgConfidence |-> 95,
          method |-> "pdf2json", error |-> "", suggestion |-> ""]
    ELSE IF /\ pdfjsResult.success
            /\ Len(pdfjsResult.pages) > 0
            /\ TextLength(JoinPages(pdfjsResult.pages)) > MinExtractedLength
    THEN [text |-> cleanOCRText(JoinPages(pdfjsResult.pages)), success |-> TRUE,
          pagesProcessed |-> pdfjsResult.numPages, avgConfidence |-> 90,
          method |-> "pdfjs-dist", error |-> "", suggestion |-> ""]
    ELSE NoStrategyResult

\* the extraction calls extractTextFromScannedPDF makes on the two parsers'
\* answers, in order: the second parser is asked when the first answer did not
\* return; no recognition call follows (strategy 3 only reports)
ScannedPDFAttempts(pdf2jsonResult, pdfjsResult) ==
    IF /\ pdf2jsonResult.success
       /\ TextLength(pdf2jsonResult.text) > 0
       /\ TextLength(pdf2jsonResult.text) > MinExtractedLength
    THEN <<"pdf2json">>
    ELSE <<"pdf2json", "pdfjs-dist">>

extractTextFromScannedPDF(buffer, maxPages) ==
    ScannedPDFResult(extractTextWithPdf2Json(buffer),
                     convertPDFToImagesWithPdfJs(buffer, maxPages))

\* if (!worker) worker = await Tesseract.createWorker(...)
initializeWorker(w) == IF w = NULL THEN [instance |-> 1] ELSE w

\* extractTextFromImage: w.recognize rejects on an unreadable image, and the
\* catch turns that into an unsuccessful result
extractTextFromImage(buffer) ==
    LET doc == Documents[buffer]
    IN  IF doc.kind = "image" /\ doc.recognized
        THEN [text |-> cleanOCRText(doc.ocr), confidence |-> doc.confidence,
              success |-> TRUE, error |-> ""]
        ELSE [text |-> EmptyText, confidence |-> 0, success |-> FALSE,
              error |-> "recognize failed"]

(***************************************************************************)
(* services/progressTracker.js.  The file is not part of this source tree: *)
(* the tracker is modelled from its contract (create, update, complete,    *)
(* fail; progress clamped to [last, 100]; a terminal job ignores updates). *)
(***************************************************************************)
Terminal(js, id) == id \in DOMAIN js /\ js[id].status \in {"Completed", "Failed"}

createJob(js, id, totalSteps) ==
    [k \in DOMAIN js \cup {id} |->
        IF k = id
        THEN [status |-> "Created", totalSteps |-> totalSteps, progress |-> 0,
              message |-> "", result |-> NULL, error |-> ""]
        ELSE js[k]]

updateProgress(js, id, percent, message) ==
    IF id \notin DOMAIN js \/ Terminal(js, id) THEN js
    ELSE [js EXCEPT ![id].status = "Running",
                    ![id].progress = Max(@, Min(100, percent)),
                    ![id].message = message]

completeJob(js, id, result) ==
    IF id \notin DOMAIN js \/ Terminal(js, id) THEN js
    ELSE [js EXCEPT ![id].status = "Completed", ![id].progress = 100,
                    ![id].message = "Analysis complete", ![id].result = result]

failJob(js, id, message) ==
    IF id \notin DOMAIN js \/ Terminal(js, id) THEN js
    ELSE [js EXCEPT ![id].status = "Failed", ![id].message = message,
                    ![id].error = message]

(***************************************************************************)
(* services/questionExtractor.js is not part of this source tree either:   *)
(* extractQuestions is a deterministic function from a text to an ordered  *)
(* list of questions, here the questions each sample text holds.           *)
(***************************************************************************)
extractQuestions(text) ==
    CASE text.id = "notes" -> <<Q_Sort, Q_Net>>
      [] text.id = "spaced" -> <<Q_Sort>>
      [] text.id = "paper" -> <<Q_Twice, Q_Entropy>>
      [] text.id = "page" -> <<Q_Para>>
      [] OTHER -> <<>>

(***************************************************************************)
(* middleware/validation.js (appended to routes/analyze.js)                *)
(***************************************************************************)
\* strips tags and the characters < > " ', then trims
sanitizeText(text) ==
    CASE text = "" -> ""
      [] text = "<b>Physics</b>" -> "Physics"
      [] text = " Final " -> "Final"
      [] OTHER -> text

(***************************************************************************)
(* routes/analyze.js: POST /api/analyze                                    *)
(***************************************************************************)
Jobs == {"j1", "j2"}

notesTxt  == [originalname |-> "notes.txt", mimetype |-> "text/plain", buffer |-> "notes"]
spacedTxt == [originalname |-> "spaced.txt", mimetype |-> "text/plain", buffer |-> "spaced"]
blankTxt  == [originalname |-> "blank.txt", mimetype |-> "text/plain", buffer |-> "blank"]
paperPdf  == [originalname |-> "paper.pdf", mimetype |-> "application/pdf", buffer |-> "paper"]
scanPdf   == [originalname |-> "scan.pdf", mimetype |-> "application/pdf", buffer |-> "scan"]
pagePng   == [originalname |-> "page.png", mimetype |-> "image/png", buffer |-> "page"]
smudgeJpg == [originalname |-> "smudge.jpg", mimetype |-> "image/jpeg", buffer |-> "smudge"]

FileSamples == {notesTxt, spacedTxt, blankTxt, paperPdf, scanPdf, pagePng, smudgeJpg}

\* The uploads of the model: one good text, the same with a second file in both
\* orders, a PDF with a text layer next to an image, files that all yield
\* nothing, a widely spaced text, and no file at all
Uploads ==
    { <<notesTxt>>, <<blankTxt, notesTxt>>, <<notesTxt, blankTxt>>, <<paperPdf, pagePng>>,
      <<scanPdf, smudgeJpg>>, <<spacedTxt>>, <<>> }

Requests ==
    {[files |-> f, examName |-> "Final", subject |-> "Physics", subjectCode |-> "PHY101",
      useOCR |-> FALSE] : f \in Uploads}
    \cup {[files |-> <<notesTxt>>, examName |-> "Final", subject |-> "Physics",
           subjectCode |-> "PHY102", useOCR |-> TRUE],
          [files |-> <<scanPdf, smudgeJpg>>, examName |-> "Final", subject |-> "Algorithms",
           subjectCode |-> "CS201", useOCR |-> TRUE]}

\* Requests in pairs that differ in useOCR alone
FlagUploads == {<<paperPdf, pagePng>>, <<scanPdf, smudgeJpg>>, <<notesTxt>>}

FlagRequests ==
    {[files |-> f, examName |-> "Final", subject |-> "Physics", subjectCode |-> "PHY101",
      useOCR |-> flag] : f \in FlagUploads, flag \in BOOLEAN}

\* what the adapter answers in a handler run
HandlerReplies ==
    {[kind |-> "throw"],
     [kind |-> "json",
      value |-> [predictions |->
                    [array |-> TRUE,
                     items |-> <<[topic |-> "Optics", difficulty |-> "Extreme",
                                  probability |-> JsonNumber(-20), type |-> "Essay", section |-> "D"]>>],
                 summary |-> AdapterSummary, trends |-> AdapterTrends]]}

MimeIsImage(m) == m \in {"image/png", "image/jpeg", "image/jpg"}

MaxOcrPages == 30
MinUsableLength == 50

Call(fn, arg) == [fn |-> fn, arg |-> arg]

\* a loop that counts the files still to come
RemainingProgress(i, n) == ((140 * (n - i) + n) \div (2 * n)) + 10

\* Math.round(((i + 1) / n) * 70) + 10, i 0-based
FileProgress(i, n) == ((140 * (i + 1) + n) \div (2 * n)) + 10

\* One iteration of the file loop up to the sufficiency test (lines 96-153): the
\* text, page count and method it ends with, the flags it raises and the calls
\* it makes; k is the 1-based place of the file
FileStep(file, useOCR, k, n) ==
    LET start == <<Call("updateProgress", FileProgress(k - 1, n))>>
        pdfResult == extractTextFromPDF(file.buffer)
        needsOCR == useOCR \/ isLikelyScannedPDF(pdfResult.text, pdfResult.numPages)
        runOCR == needsOCR /\ TextLength(pdfResult.text) < 100
        ocrResult == extractTextFromScannedPDF(file.buffer, MaxOcrPages)
        ocrTaken == ocrResult.success /\ TextLength(ocrResult.text) > 0
        imgResult == extractTextFromImage(file.buffer)
    IN  IF file.mimetype = "application/pdf"
        THEN IF runOCR
             THEN [text |-> IF ocrTaken THEN ocrResult.text ELSE pdfResult.text,
                   numPages |-> IF ocrTaken /\ ocrResult.pagesProcessed # 0
                                THEN ocrResult.pagesProcessed ELSE pdfResult.numPages,
                   method |-> IF ocrTaken THEN "ocr" ELSE "text",
                   scanned |-> TRUE,
                   ocr |-> ocrTaken,
                   calls |-> start \o <<Call("extractTextFromPDF", k),
                                        Call("updateProgress", FileProgress(k - 1, n)),
                                        Call("extractTextFromScannedPDF", k)>>]
             ELSE [text |-> pdfResult.text, numPages |-> pdfResult.numPages,
                   method |-> "text", scanned |-> FALSE, ocr |-> FALSE,
                   calls |-> start \o <<Call("extractTextFromPDF", k)>>]
        ELSE IF MimeIsImage(file.mimetype)
        THEN [text |-> imgResult.text, numPages |-> 1, method |-> "ocr",
              scanned |-> FALSE, ocr |-> TRUE,
              calls |-> start \o <<Call("extractTextFromImage", k)>>]
        ELSE IF file.mimetype = "text/plain"
        THEN [text |-> Documents[file.buffer].utf8, numPages |-> 1, method |-> "text",
              scanned |-> FALSE, ocr |-> FALSE, calls |-> start]
        ELSE [text |-> EmptyText, numPages |-> 0, method |-> "text",
              scanned |-> FALSE, ocr |-> FALSE, calls |-> start]

UsableByNonBlank(text) == ~(TextLength(text) = 0 \/ text.chars < MinUsableLength)

\* the negation of (!text || text.trim().length < 50)
Usable(text) == ~(TextLength(text) = 0 \/ TrimLength(text) < MinUsableLength)

ErrorEntry(file, method) ==
    [filename |-> file.originalname, status |-> "error",
     error |-> "Could not extract sufficient text", questionsFound |-> 0, method |-> method]

\* a success entry that does not report its questions
EntryWithoutQuestions(file, step, questions) ==
    [filename |-> file.originalname, status |-> "success", pages |-> step.numPages,
     questionsFound |-> 0, textLength |-> TextLength(step.text), method |-> step.method]

SuccessEntry(file, step, questions) ==
    [filename |-> file.originalname, status |-> "success", pages |-> step.numPages,
     questionsFound |-> Len(questions), textLength |-> TextLength(step.text),
     method |-> step.method]

Topics(predictions) == {predictions[n].topic : n \in DOMAIN predictions}

\* lines 193-227: the warnings and the response payload
BuildResult(r, l) ==
    LET predictions == Get(l.aiAnalysis, "predictions", <<>>)
    IN  [predictions |-> predictions,
         summary |-> Get(l.aiAnalysis, "summary", <<>>),
         trends |-> Get(l.aiAnalysis, "trends", <<>>),
         exam |-> [name |-> sanitizeText(r.examName), subject |-> sanitizeText(r.subject),
                   subjectCode |-> sanitizeText(r.subjectCode)],
         analysis |-> [papersAnalyzed |-> Len(r.files),
                       pagesProcessed |-> l.totalPages,
                       questionsExtracted |-> Len(l.allQuestions),
                       topicsCovered |-> Cardinality(Topics(predictions)),
                       avgAccuracy |-> 85,
                       ocrUsed |-> l.ocrUsed,
                       fileResults |-> l.fileResults],
         recurrence |-> [n \in 1..Min(5, Len(predictions)) |->
                            [topic |-> predictions[n].topic,
                             frequency |-> Max(1, 10 - (n - 1) * 2),
                             lastAsked |-> 2024 - (n - 1)]],
         warnings |->
            (IF l.scannedWarning
             THEN <<"Some PDFs appear to be scanned images. OCR was used for text extraction.">>
             ELSE <<>>)
            \o (IF l.ocrUsed
                THEN <<"OCR was used for some files. Results may vary based on image quality.">>
                ELSE <<>>)]

InitLoc ==
    [cacheKey |-> <<>>, i |-> 0, allQuestions |-> <<>>, fileResults |-> <<>>,
     totalPages |-> 0, scannedWarning |-> FALSE, ocrUsed |-> FALSE,
     aiAnalysis |-> NULL, result |-> NULL, cachedResult |-> NULL,
     texts |-> <<>>,     \* history: the text each finished iteration tested at line 155
     thrown |-> ""]      \* history: the message of the exception the catch received

NoRequest ==
    [files |-> <<>>, examName |-> "", subject |-> "", subjectCode |-> "", useOCR |-> FALSE]

\* lines 56-66, the same for a hit and a miss
Prologue == <<Call("createJob", 0), Call("updateProgress", 5), Call("generateCacheKey", 0),
              Call("getCachedAnalysis", 0)>>

\* line 65: generateCacheKey(files, subject, examName) of every request of the model
CacheKeyOf ==
    [r \in Requests \cup FlagRequests |-> generateCacheKey(r.files, r.subject, r.examName)]

\* line 66
Lookup(r) == getCachedAnalysis(cache, CacheKeyOf[r], now)

OtherServicesUnchanged == UNCHANGED <<keyrun, airun, aicalls, fbrun, scanrun, probe, updates>>

Ok(j, analysis, cached) ==
    [status |-> 200, success |-> TRUE, cached |-> cached, jobId |-> j,
     analysis |-> analysis, error |-> "", message |-> ""]

Failure(j, status, error, message) ==
    [status |-> status, success |-> FALSE, cached |-> FALSE, jobId |-> j,
     analysis |-> NULL, error |-> error, message |-> message]

\* a run that creates its job before it looks at the files
RejectAfterCreate(j, r) ==
    /\ pc[j] = "idle"
    /\ Len(r.files) = 0
    /\ pc' = [pc EXCEPT ![j] = "done"]
    /\ req' = [req EXCEPT ![j] = r]
    /\ jobs' = createJob(jobs, j, Len(r.files) + 2)
    /\ calls' = [calls EXCEPT ![j] = <<Call("createJob", 0)>>]
    /\ resp' = [resp EXCEPT ![j] =
                    Failure(j, 400, "No files uploaded", "Please upload at least one PDF file")]
    /\ UNCHANGED <<cache, now, apiKey, openai, loc, worker>>
    /\ OtherServicesUnchanged

\* lines 49-54: no file was uploaded
RejectEmpty(j, r) ==
    /\ pc[j] = "idle"
    /\ Len(r.files) = 0
    /\ pc' = [pc EXCEPT ![j] = "done"]
    /\ req' = [req EXCEPT ![j] = r]
    /\ resp' = [resp EXCEPT ![j] =
                    Failure(j, 400, "No files uploaded", "Please upload at least one PDF file")]
    /\ UNCHANGED <<cache, now, jobs, apiKey, openai, loc, calls, worker>>
    /\ OtherServicesUnchanged

CacheHitFallsThrough(j, r) ==
    /\ pc[j] = "idle"
    /\ Len(r.files) # 0
    /\ Lookup(r).ret # NULL
    /\ LET cacheKey == CacheKeyOf[r]
           cachedResult == Lookup(r).ret
       IN  /\ cache' = Lookup(r).cache
           /\ jobs' = completeJob(
                        updateProgress(createJob(jobs, j, Len(r.files) + 2), j, 5,
                                       "Starting analysis..."),
                        j, cachedResult)
           /\ loc' = [loc EXCEPT ![j] = [InitLoc EXCEPT !.cacheKey = cacheKey,
                                                         !.cachedResult = cachedResult]]
           /\ calls' = [calls EXCEPT ![j] =
                            Prologue \o <<Call("completeJob", 0), Call("recordAnalysis", 0)>>]
           /\ resp' = [resp EXCEPT ![j] = Ok(j, cachedResult, TRUE)]
    /\ pc' = [pc EXCEPT ![j] = "loop"]
    /\ req' = [req EXCEPT ![j] = r]
    /\ UNCHANGED <<now, apiKey, openai, worker>>
    /\ OtherServicesUnchanged

\* lines 56-86: the cache holds a live entry for the key
CacheHit(j, r) ==
    /\ pc[j] = "idle"
    /\ Len(r.files) # 0
    /\ Lookup(r).ret # NULL
    /\ LET cacheKey == CacheKeyOf[r]
           cachedResult == Lookup(r).ret
       IN  /\ cache' = Lookup(r).cache
           /\ jobs' = completeJob(
                        updateProgress(createJob(jobs, j, Len(r.files) + 2), j, 5,
                                       "Starting analysis..."),
                        j, cachedResult)
           /\ loc' = [loc EXCEPT ![j] = [InitLoc EXCEPT !.cacheKey = cacheKey,
                                                         !.cachedResult = cachedResult]]
           /\ calls' = [calls EXCEPT ![j] =
                            Prologue \o <<Call("completeJob", 0), Call("recordAnalysis", 0)>>]
           /\ resp' = [resp EXCEPT ![j] = Ok(j, cachedResult, TRUE)]
    /\ pc' = [pc EXCEPT ![j] = "done"]
    /\ req' = [req EXCEPT ![j] = r]
    /\ UNCHANGED <<now, apiKey, openai, worker>>
    /\ OtherServicesUnchanged

\* the same, recordAnalysis (line 70) raising: the catch calls failJob and answers 500
CacheHitRecordThrows(j, r) ==
    /\ pc[j] = "idle"
    /\ Len(r.files) # 0
    /\ Lookup(r).ret # NULL
    /\ LET cacheKey == CacheKeyOf[r]
           cachedResult == Lookup(r).ret
       IN  /\ cache' = Lookup(r).cache
           /\ jobs' = failJob(
                        completeJob(
                            updateProgress(createJob(jobs, j, Len(r.files) + 2), j, 5,
                                           "Starting analysis..."),
                            j, cachedResult),
                        j, "recordAnalysis failed")
           /\ loc' = [loc EXCEPT ![j] = [InitLoc EXCEPT !.cacheKey = cacheKey,
                                                         !.cachedResult = cachedResult,
                                                         !.thrown = "recordAnalysis failed"]]
           /\ calls' = [calls EXCEPT ![j] =
                            Prologue \o <<Call("completeJob", 0), Call("recordAnalysis", 0),
                                          Call("failJob", 0)>>]
           /\ resp' = [resp EXCEPT ![j] =
                            Failure(j, 500, "Analysis failed", "recordAnalysis failed")]
    /\ pc' = [pc EXCEPT ![j] = "done"]
    /\ req' = [req EXCEPT ![j] = r]
    /\ UNCHANGED <<now, apiKey, openai, worker>>
    /\ OtherServicesUnchanged

\* lines 56-93: no live entry; the run enters the file loop
CacheMiss(j, r) ==
    /\ pc[j] = "idle"
    /\ Len(r.files) # 0
    /\ Lookup(r).ret = NULL
    /\ cache' = Lookup(r).cache
    /\ jobs' = updateProgress(createJob(jobs, j, Len(r.files) + 2), j, 5, "Starting analysis...")
    /\ loc' = [loc EXCEPT ![j] =
                [InitLoc EXCEPT !.cacheKey = CacheKeyOf[r]]]
    /\ calls' = [calls EXCEPT ![j] = Prologue]
    /\ pc' = [pc EXCEPT ![j] = "loop"]
    /\ req' = [req EXCEPT ![j] = r]
    /\ UNCHANGED <<now, apiKey, openai, resp, worker>>
    /\ OtherServicesUnchanged

FileJobs(j, step) ==
    LET pct == step.calls[1].arg
    IN  updateProgress(jobs, j, pct, "Processing file")

\* an iteration that puts its entry in front of fileResults
ProcessFileUnshift(j) ==
    /\ pc[j] = "loop"
    /\ loc[j].i < Len(req[j].files)
    /\ LET k == loc[j].i + 1
           file == req[j].files[k]
           step == FileStep(file, req[j].useOCR, k, Len(req[j].files))
           usable == Usable(step.text)
           questions == IF usable THEN extractQuestions(step.text) ELSE <<>>
           entry == IF usable THEN SuccessEntry(file, step, questions)
                    ELSE ErrorEntry(file, step.method)
       IN  /\ jobs' = FileJobs(j, step)
           /\ worker' = IF MimeIsImage(file.mimetype) THEN initializeWorker(worker) ELSE worker
           /\ loc' = [loc EXCEPT
                        ![j].i = k,
                        ![j].texts = Append(@, step.text),
                        ![j].scannedWarning = @ \/ step.scanned,
                        ![j].ocrUsed = @ \/ step.ocr,
                        ![j].allQuestions = @ \o questions,
                        ![j].totalPages = @ + (IF usable THEN step.numPages ELSE 0),
                        ![j].fileResults = <<entry>> \o @]
           /\ calls' = [calls EXCEPT ![j] =
                            @ \o step.calls
                              \o (IF usable THEN <<Call("extractQuestions", k)>> ELSE <<>>)]
    /\ UNCHANGED <<cache, now, apiKey, openai, pc, req, resp>>
    /\ OtherServicesUnchanged

\* lines 95-181: one iteration of the file loop
ProcessFile(j) ==
    /\ pc[j] = "loop"
    /\ loc[j].i < Len(req[j].files)
    /\ LET k == loc[j].i + 1
           file == req[j].files[k]
           step == FileStep(file, req[j].useOCR, k, Len(req[j].files))
           questions == extractQuestions(step.text)
       IN  /\ jobs' = FileJobs(j, step)
           /\ worker' = IF MimeIsImage(file.mimetype) THEN initializeWorker(worker) ELSE worker
           /\ IF ~Usable(step.text)
              THEN /\ loc' = [loc EXCEPT
                                ![j].i = k,
                                ![j].texts = Append(@, step.text),
                                ![j].scannedWarning = @ \/ step.scanned,
                                ![j].ocrUsed = @ \/ step.ocr,
                                ![j].fileResults = Append(@, ErrorEntry(file, step.method))]
                   /\ calls' = [calls EXCEPT ![j] = @ \o step.calls]
              ELSE /\ loc' = [loc EXCEPT
                                ![j].i = k,
                                ![j].texts = Append(@, step.text),
                                ![j].scannedWarning = @ \/ step.scanned,
                                ![j].ocrUsed = @ \/ step.ocr,
                                ![j].allQuestions = @ \o questions,
                                ![j].totalPages = @ + step.numPages,
                                ![j].fileResults = Append(@, SuccessEntry(file, step, questions))]
                   /\ calls' = [calls EXCEPT ![j] =
                                    @ \o step.calls \o <<Call("extractQuestions", k)>>]
    /\ UNCHANGED <<cache, now, apiKey, openai, pc, req, resp>>
    /\ OtherServicesUnchanged

\* an iteration in which extractQuestions (line 167) raises: the catch of
\* lines 270-279 fails the job and answers 500
ProcessFileThrows(j) ==
    /\ pc[j] = "loop"
    /\ loc[j].i < Len(req[j].files)
    /\ LET k == loc[j].i + 1
           file == req[j].files[k]
           step == FileStep(file, req[j].useOCR, k, Len(req[j].files))
       IN  /\ Usable(step.text)
           /\ jobs' = failJob(FileJobs(j, step), j, "extractQuestions failed")
           /\ worker' = IF MimeIsImage(file.mimetype) THEN initializeWorker(worker) ELSE worker
           /\ loc' = [loc EXCEPT ![j].scannedWarning = @ \/ step.scanned,
                                 ![j].ocrUsed = @ \/ step.ocr,
                                 ![j].thrown = "extractQuestions failed"]
           /\ calls' = [calls EXCEPT ![j] =
                            @ \o step.calls \o <<Call("extractQuestions", k), Call("failJob", 0)>>]
    /\ resp' = [resp EXCEPT ![j] =
                    Failure(j, 500, "Analysis failed", "extractQuestions failed")]
    /\ pc' = [pc EXCEPT ![j] = "done"]
    /\ UNCHANGED <<cache, now, apiKey, openai, req>>
    /\ OtherServicesUnchanged

PredictInLoop(j, reply) ==
    /\ pc[j] = "loop"
    /\ loc[j].i >= 1
    /\ LET client == initializeOpenAI(apiKey, openai)
           invoked == AdapterInvoked(client, loc[j].allQuestions)
       IN  /\ reply \in (IF invoked THEN HandlerReplies ELSE {[kind |-> "none"]})
           /\ openai' = client
           /\ loc' = [loc EXCEPT ![j].aiAnalysis =
                        analyzeWithAI(client, loc[j].allQuestions, req[j].subject,
                                      req[j].examName, reply)]
           /\ calls' = [calls EXCEPT ![j] =
                            @ \o <<Call("updateProgress", 85), Call("analyzeWithAI", loc[j].i)>>
                              \o (IF invoked THEN <<Call("chat.completions.create", 0)>> ELSE <<>>)]
    /\ jobs' = updateProgress(jobs, j, 85, "Running AI analysis...")
    /\ pc' = [pc EXCEPT ![j] = IF loc[j].i = Len(req[j].files) THEN "assemble" ELSE "loop"]
    /\ UNCHANGED <<cache, now, apiKey, req, resp, worker>>
    /\ OtherServicesUnchanged

\* lines 183-188: the loop is over; analyzeWithAI is called and answers
Predict(j, reply) ==
    /\ pc[j] = "loop"
    /\ loc[j].i = Len(req[j].files)
    /\ LET client == initializeOpenAI(apiKey, openai)
           invoked == AdapterInvoked(client, loc[j].allQuestions)
       IN  /\ reply \in (IF invoked THEN HandlerReplies ELSE {[kind |-> "none"]})
           /\ openai' = client
           /\ loc' = [loc EXCEPT ![j].aiAnalysis =
                        analyzeWithAI(client, loc[j].allQuestions, req[j].subject,
                                      req[j].examName, reply)]
           /\ calls' = [calls EXCEPT ![j] =
                            @ \o <<Call("updateProgress", 85), Call("analyzeWithAI", loc[j].i)>>
                              \o (IF invoked THEN <<Call("chat.completions.create", 0)>> ELSE <<>>)]
    /\ jobs' = updateProgress(jobs, j, 85, "Running AI analysis...")
    /\ pc' = [pc EXCEPT ![j] = "assemble"]
    /\ UNCHANGED <<cache, now, apiKey, req, resp, worker>>
    /\ OtherServicesUnchanged

\* a run that builds the result and leaves the cache alone
AssembleWithoutCache(j) ==
    /\ pc[j] = "assemble"
    /\ loc' = [loc EXCEPT ![j].result = BuildResult(req[j], loc[j])]
    /\ jobs' = updateProgress(jobs, j, 95, "Finalizing results...")
    /\ calls' = [calls EXCEPT ![j] = @ \o <<Call("updateProgress", 95)>>]
    /\ pc' = [pc EXCEPT ![j] = "record"]
    /\ UNCHANGED <<cache, now, apiKey, openai, req, resp, worker>>
    /\ OtherServicesUnchanged

\* lines 191-244: the result is built and cached; the database insert is awaited
Assemble(j) ==
    /\ pc[j] = "assemble"
    /\ LET result == BuildResult(req[j], loc[j])
       IN  /\ loc' = [loc EXCEPT ![j].result = result]
           /\ cache' = cacheAnalysis(cache, loc[j].cacheKey, result, CACHE_TTL, now)
    /\ jobs' = updateProgress(jobs, j, 95, "Finalizing results...")
    /\ calls' = [calls EXCEPT ![j] = @ \o <<Call("updateProgress", 95), Call("cacheAnalysis", 0)>>]
    /\ pc' = [pc EXCEPT ![j] = "record"]
    /\ UNCHANGED <<now, apiKey, openai, req, resp, worker>>
    /\ OtherServicesUnchanged

\* a run that answers without telling the tracker
AnswerOnly(j) ==
    /\ pc[j] = "record"
    /\ calls' = [calls EXCEPT ![j] = @ \o <<Call("recordAnalysis", 0)>>]
    /\ resp' = [resp EXCEPT ![j] = Ok(j, loc[j].result, FALSE)]
    /\ pc' = [pc EXCEPT ![j] = "done"]
    /\ UNCHANGED <<cache, now, jobs, apiKey, openai, req, loc, worker>>
    /\ OtherServicesUnchanged

\* a run that completes its job with what the cache holds under its key
CompleteWithCached(j) ==
    /\ pc[j] = "record"
    /\ LET result == IF loc[j].cacheKey \in DOMAIN cache
                     THEN cache[loc[j].cacheKey].data ELSE loc[j].result
       IN  /\ jobs' = completeJob(jobs, j, result)
           /\ resp' = [resp EXCEPT ![j] = Ok(j, result, FALSE)]
    /\ calls' = [calls EXCEPT ![j] = @ \o <<Call("recordAnalysis", 0), Call("completeJob", 0)>>]
    /\ pc' = [pc EXCEPT ![j] = "done"]
    /\ UNCHANGED <<cache, now, apiKey, openai, req, loc, worker>>
    /\ OtherServicesUnchanged

\* lines 246-268: analytics, completion and the response
Complete(j) ==
    /\ pc[j] = "record"
    /\ jobs' = completeJob(jobs, j, loc[j].result)
    /\ calls' = [calls EXCEPT ![j] = @ \o <<Call("recordAnalysis", 0), Call("completeJob", 0)>>]
    /\ resp' = [resp EXCEPT ![j] = Ok(j, loc[j].result, FALSE)]
    /\ pc' = [pc EXCEPT ![j] = "done"]
    /\ UNCHANGED <<cache, now, apiKey, openai, req, loc, worker>>
    /\ OtherServicesUnchanged

\* the same, recordAnalysis (line 250) raising
RecordThrows(j) ==
    /\ pc[j] = "record"
    /\ jobs' = failJob(jobs, j, "recordAnalysis failed")
    /\ loc' = [loc EXCEPT ![j].thrown = "recordAnalysis failed"]
    /\ calls' = [calls EXCEPT ![j] = @ \o <<Call("recordAnalysis", 0), Call("failJob", 0)>>]
    /\ resp' = [resp EXCEPT ![j] = Failure(j, 500, "Analysis failed", "recordAnalysis failed")]
    /\ pc' = [pc EXCEPT ![j] = "done"]
    /\ UNCHANGED <<cache, now, apiKey, openai, req, worker>>
    /\ OtherServicesUnchanged

\* time passes: more than the time an entry lives
MaxTicks == 1
TickLength == CACHE_TTL + 1

Tick ==
    /\ now < MaxTicks * TickLength
    /\ now' = now + TickLength
    /\ UNCHANGED <<cache, jobs, apiKey, openai, pc, req, loc, resp, calls, worker>>
    /\ OtherServicesUnchanged

KeyIdle == [pc |-> "off"]
AiIdle == [pc |-> "off"]
FallbackIdle == [pc |-> "off"]
ScanIdle == [pc |-> "off"]
ProbeIdle == [pc |-> "off"]

\* no stand-alone run besides those of keyrun and airun is under way
OthersIdle ==
    /\ aicalls = <<>>
    /\ fbrun = FallbackIdle
    /\ scanrun = ScanIdle
    /\ probe = ProbeIdle
    /\ updates = <<>>

HandlerInit ==
    /\ cache = << >>
    /\ now = 0
    /\ jobs = << >>
    /\ openai = NULL
    /\ worker = NULL
    /\ pc = [j \in Jobs |-> "idle"]
    /\ req = [j \in Jobs |-> NoRequest]
    /\ loc = [j \in Jobs |-> InitLoc]
    /\ resp = [j \in Jobs |-> NULL]
    /\ calls = [j \in Jobs |-> <<>>]

Init ==
    /\ HandlerInit
    /\ apiKey \in BOOLEAN
    /\ keyrun = KeyIdle
    /\ airun = AiIdle
    /\ OthersIdle

Next ==
    \/ \E j \in Jobs, r \in Requests : RejectEmpty(j, r)
    \/ \E j \in Jobs, r \in Requests : CacheHit(j, r)
    \/ \E j \in Jobs, r \in Requests : CacheHitRecordThrows(j, r)
    \/ \E j \in Jobs, r \in Requests : CacheMiss(j, r)
    \/ \E j \in Jobs : ProcessFile(j)
    \/ \E j \in Jobs : ProcessFileThrows(j)
    \/ \E j \in Jobs, reply \in HandlerReplies \cup {[kind |-> "none"]} : Predict(j, reply)
    \/ \E j \in Jobs : Assemble(j)
    \/ \E j \in Jobs : Complete(j)
    \/ \E j \in Jobs : RecordThrows(j)
    \/ Tick

Spec == Init /\ [][Next]_vars

(***************************************************************************)
(* The handler runs while other callers of the tracker module call         *)
(* updateProgress on the same job ids: before the job exists, while it     *)
(* runs, after it ended; with a percentage below the job's own or beyond    *)
(* 100.  No cache entry expires meanwhile.                                 *)
(***************************************************************************)
MaxTrackerUpdates == 1
UpdatePercents == {0, 120}

UpdateFromOutside(j, percent) ==
    /\ Len(updates) < MaxTrackerUpdates
    /\ jobs' = updateProgress(jobs, j, percent, "update")
    /\ updates' = Append(updates, [id |-> j, percent |-> percent, late |-> Terminal(jobs, j)])
    /\ UNCHANGED <<cache, now, apiKey, openai, pc, req, loc, resp, calls, worker,
                   keyrun, airun, aicalls, fbrun, scanrun, probe>>

NextTracker ==
    \/ \E j \in Jobs, r \in Requests : RejectEmpty(j, r)
    \/ \E j \in Jobs, r \in Requests : CacheHit(j, r)
    \/ \E j \in Jobs, r \in Requests : CacheHitRecordThrows(j, r)
    \/ \E j \in Jobs, r \in Requests : CacheMiss(j, r)
    \/ \E j \in Jobs : ProcessFile(j)
    \/ \E j \in Jobs : ProcessFileThrows(j)
    \/ \E j \in Jobs : Predict(j, [kind |-> "none"])
    \/ \E j \in Jobs : Assemble(j)
    \/ \E j \in Jobs : Complete(j)
    \/ \E j \in Jobs : RecordThrows(j)
    \/ \E j \in Jobs, percent \in UpdatePercents : UpdateFromOutside(j, percent)

\* the process was started without OPENAI_API_KEY
InitTracker ==
    /\ HandlerInit
    /\ apiKey = FALSE
    /\ keyrun = KeyIdle
    /\ airun = AiIdle
    /\ OthersIdle

SpecTracker == InitTracker /\ [][NextTracker]_vars

(***************************************************************************)
(* The handler when every awaited call (extractTextFromPDF,                *)
(* extractTextFromScannedPDF, extractTextFromImage, analyzeWithAI and the  *)
(* adapter's request inside it) returns or throws: a run that has started  *)
(* takes its next step.                                                    *)
(***************************************************************************)
\* a step of the file loop, or the step out of it into analyzeWithAI
LoopStep(j) ==
    \/ ProcessFile(j)
    \/ ProcessFileThrows(j)
    \/ \E reply \in HandlerReplies \cup {[kind |-> "none"]} : Predict(j, reply)

\* a run in the loop can take LoopStep: the next file when loc[j].i is below
\* the number of files, Predict when it has reached it
InLoop(j) == pc[j] = "loop"

\* weak fairness of LoopStep(j), its enabling condition written as InLoop(j)
LoopFair(j) == []<>(~InLoop(j)) \/ []<><<LoopStep(j)>>_vars

SpecLive ==
    /\ Init
    /\ [][Next]_vars
    /\ \A j \in Jobs :
        /\ LoopFair(j)
        /\ WF_vars(Assemble(j))
        /\ WF_vars(Complete(j) \/ RecordThrows(j))

(***************************************************************************)
(* generateCacheKey on a file list and a reordering of it                  *)
(***************************************************************************)
KeyFiles == {notesTxt, blankTxt, paperPdf}

\* the reorderings of 1..n
Reorderings(n) == {p \in [1..n -> 1..n] : \A a, b \in 1..n : p[a] = p[b] => a = b}

KeyInputs ==
    UNION {{[pc |-> "in", files |-> f, reordered |-> [i \in DOMAIN f |-> f[p[i]]],
             subject |-> s, examName |-> e, key |-> <<>>, reorderedKey |-> <<>>] :
                p \in Reorderings(Len(f)), s \in Subjects, e \in Exams} :
           f \in SeqsUpTo(KeyFiles, MaxKeyFiles)}

InitKey ==
    /\ HandlerInit
    /\ apiKey = FALSE
    /\ airun = AiIdle
    /\ keyrun \in KeyInputs
    /\ OthersIdle

ComputeKeys ==
    /\ keyrun.pc = "in"
    /\ keyrun' = [keyrun EXCEPT
                    !.pc = "out",
                    !.key = generateCacheKey(keyrun.files, keyrun.subject, keyrun.examName),
                    !.reorderedKey =
                        generateCacheKey(keyrun.reordered, keyrun.subject, keyrun.examName)]
    /\ UNCHANGED <<cache, now, jobs, apiKey, openai, pc, req, loc, resp, calls, worker, airun,
                   aicalls, fbrun, scanrun, probe, updates>>

NextKey == ComputeKeys

SpecKey == InitKey /\ [][NextKey]_vars

(***************************************************************************)
(* analyzeWithAI on a question list, a subject and what the model replies  *)
(***************************************************************************)
AiQuestions == {Q_Sort, Q_Entropy, Q_Twice}

AiInputs ==
    {[pc |-> "in", questions |-> q, subject |-> s, examName |-> "Final", reply |-> r,
      invoked |-> FALSE, source |-> "", out |-> NULL] :
        q \in SeqsUpTo(AiQuestions, MaxAiQuestions), s \in Subjects, r \in Replies}

InitAI ==
    /\ HandlerInit
    /\ apiKey \in BOOLEAN
    /\ keyrun = KeyIdle
    /\ airun \in AiInputs
    /\ OthersIdle

\* one call of analyzeWithAI: `invoked' records that chat.completions.create was
\* called, `source' which return statement produced the value
CallAnalyzeWithAI ==
    /\ airun.pc = "in"
    /\ LET client == initializeOpenAI(apiKey, openai)
           invoked == AdapterInvoked(client, airun.questions)
       IN /\ openai' = client
          /\ airun' = [airun EXCEPT
                         !.pc = "out",
                         !.invoked = invoked,
                         !.source = IF invoked /\ ~AdapterFails(airun.reply)
                                    THEN "adapter" ELSE "fallback",
                         !.out = analyzeWithAI(client, airun.questions, airun.subject,
                                               airun.examName, airun.reply)]
    /\ UNCHANGED <<cache, now, jobs, apiKey, pc, req, loc, resp, calls, worker, keyrun,
                   aicalls, fbrun, scanrun, probe, updates>>

NextAI == CallAnalyzeWithAI

SpecAI == InitAI /\ [][NextAI]_vars

(***************************************************************************)
(* Properties of the analyze handler                                       *)
(***************************************************************************)
\* the places in a job's call log where fn is called
CallsOf(j, fn) == {p \in DOMAIN calls[j] : calls[j][p].fn = fn}

ExtractionCalls == {"extractTextFromPDF", "extractTextFromScannedPDF", "extractTextFromImage"}

\* the run of job j missed the cache and entered the file loop
Missed(j) == pc[j] # "idle" /\ Len(req[j].files) # 0 /\ loc[j].cachedResult = NULL

C3_FaultLeavesCacheUntouched ==
    \A j \in Jobs :
        CallsOf(j, "failJob") # {} => CallsOf(j, "cacheAnalysis") = {}

\* the questions the finished iterations took from the texts that pass the test
\* of line 155
RECURSIVE QuestionsOfUsable(_)
QuestionsOfUsable(texts) ==
    IF texts = <<>> THEN <<>>
    ELSE (IF TextLength(Head(texts)) = 0 \/ TrimLength(Head(texts)) < 50
          THEN <<>> ELSE extractQuestions(Head(texts)))
         \o QuestionsOfUsable(Tail(texts))

RECURSIVE PagesOfSuccesses(_)
PagesOfSuccesses(entries) ==
    IF entries = <<>> THEN 0
    ELSE (IF Head(entries).status = "success" THEN Head(entries).pages ELSE 0)
         + PagesOfSuccesses(Tail(entries))

\* C4, as amended: a file whose extraction fails or yields no text or a text of
\* fewer than 50 characters once leading and trailing whitespace is trimmed
\* gets exactly one fileResults entry, with status 'error' and questionsFound 0;
\* it adds no questions and no pages; the loop goes on to the last file; and
\* failJob is called only for a raised exception, never for such a file.
C4_InsufficientTextIsNonFatal ==
    \A j \in Jobs :
        LET l == loc[j]
            files == req[j].files
        IN  /\ Len(l.fileResults) = l.i
            /\ Len(l.texts) = l.i
            /\ \A k \in 1..l.i :
                    (TextLength(l.texts[k]) = 0 \/ TrimLength(l.texts[k]) < 50) =>
                        /\ l.fileResults[k].status = "error"
                        /\ l.fileResults[k].questionsFound = 0
                        /\ l.fileResults[k].filename = files[k].originalname
            /\ l.allQuestions = QuestionsOfUsable(l.texts)
            /\ l.totalPages = PagesOfSuccesses(l.fileResults)
            /\ (Missed(j) /\ pc[j] # "loop" /\ l.thrown # "extractQuestions failed") =>
                    l.i = Len(files)
            /\ CallsOf(j, "failJob") # {} => l.thrown # ""

C4_ShortFileThenNextFile ==
    \E j \in Jobs :
        /\ pc[j] = "done"
        /\ loc[j].thrown = ""
        /\ Len(loc[j].fileResults) = 2
        /\ loc[j].fileResults[1].status = "error"
        /\ TrimLength(loc[j].texts[1]) \in 1..49
        /\ loc[j].fileResults[2].status = "success"
        /\ jobs[j].status = "Completed"

\* C4, as written: a file that yields fewer than 50 non-blank characters gets
\* an entry with status 'error'.
C4_FewNonBlankCharactersIsError ==
    \A j \in Jobs :
        \A k \in 1..loc[j].i :
            (TextLength(loc[j].texts[k]) = 0 \/ loc[j].texts[k].chars < 50) =>
                loc[j].fileResults[k].status = "error"

\* the topics of the generic predictions for a subject
GenericTopics(subject) ==
    <<subject \o " - Fundamentals", subject \o " - Core Principles",
      subject \o " - Problem Solving", subject \o " - Applications",
      subject \o " - Advanced Topics">>

\* every file of the run of job j is through the loop and none gave usable text
NoUsableText(j) ==
    /\ Missed(j)
    /\ loc[j].i = Len(req[j].files)
    /\ \A k \in 1..loc[j].i : loc[j].fileResults[k].status = "error"

C6_PredictionOncePerMiss ==
    \A j \in Jobs :
        LET ai == CallsOf(j, "analyzeWithAI")
            n == Len(req[j].files)
        IN  /\ Cardinality(ai) <= 1
            /\ (Missed(j) /\ pc[j] # "loop" /\ loc[j].thrown # "extractQuestions failed") =>
                    Cardinality(ai) = 1
            /\ \A p \in ai :
                    /\ calls[j][p].arg = n
                    /\ Len(loc[j].fileResults) = n
                    /\ \A q \in DOMAIN calls[j] :
                            calls[j][q].fn \in ExtractionCalls \cup {"extractQuestions"} => q < p

C6_PredictedAfterTwoFiles ==
    \E j \in Jobs :
        /\ pc[j] = "done"
        /\ Missed(j)
        /\ Len(req[j].files) = 2
        /\ Cardinality(CallsOf(j, "analyzeWithAI")) = 1
        /\ CallsOf(j, "extractQuestions") # {}
        /\ resp[j].status = 200

(***************************************************************************)
(* Properties of generateCacheKey                                          *)
(***************************************************************************)
\* C2: for every file list and every reordering of it, with the same subject
\* and examName, generateCacheKey gives the same key.
C2_KeyIgnoresFileOrder ==
    keyrun.pc = "out" => keyrun.key = keyrun.reorderedKey

C2_ReorderedFilesSameKey ==
    /\ keyrun.pc = "out"
    /\ Len(keyrun.files) >= 2
    /\ keyrun.reordered # keyrun.files
    /\ keyrun.key = keyrun.reorderedKey

(***************************************************************************)
(* Properties of analyzeWithAI                                             *)
(***************************************************************************)
\* the adapter was called and its call raised, or its content is no JSON, or the
\* parsed value has no predictions array
AdapterFailed ==
    /\ airun.invoked
    /\ \/ airun.reply.kind \in {"throw", "text"}
       \/ /\ airun.reply.kind = "json"
          /\ \/ airun.reply.value = NULL
             \/ "predictions" \notin DOMAIN airun.reply.value
             \/ ~airun.reply.value.predictions.array

\* the prediction objects of the adapter's reply, when the result comes from it
AdapterItems == airun.reply.value.predictions.items

\* C7: analyzeWithAI always returns a value, and when the adapter call throws,
\* its content is not valid JSON or the parsed value has no predictions array,
\* that value is generateFallbackPredictions(questions, subject).
C7_AdapterFailureAbsorbed ==
    airun.pc = "out" =>
        /\ airun.out # NULL
        /\ AdapterFailed =>
                airun.out = generateFallbackPredictions(airun.questions, airun.subject)

C7_FellBackAfterBadReply ==
    /\ airun.pc = "out"
    /\ AdapterFailed
    /\ airun.reply.kind = "json"
    /\ airun.reply.value # NULL
    /\ Len(airun.out.predictions) > 0
    /\ airun.out = generateFallbackPredictions(airun.questions, airun.subject)

\* C8: every prediction analyzeWithAI returns has a probability between 0 and 1
\* (0 and 100 hundredths); an adapter value below 0 is returned as 0 and one
\* above 1 as 1.
C8_ProbabilityInUnitInterval ==
    airun.pc = "out" =>
        /\ \A n \in DOMAIN airun.out.predictions :
                /\ airun.out.predictions[n].probability >= 0
                /\ airun.out.predictions[n].probability <= 100
        /\ airun.source = "adapter" =>
                \A n \in DOMAIN AdapterItems :
                    IsNumber(Get(AdapterItems[n], "probability", NULL)) =>
                        /\ AdapterItems[n].probability.number < 0 =>
                                airun.out.predictions[n].probability = 0
                        /\ AdapterItems[n].probability.number > 100 =>
                                airun.out.predictions[n].probability = 100

C8_BothEndsClamped ==
    /\ airun.pc = "out"
    /\ airun.source = "adapter"
    /\ Len(AdapterItems) = 2
    /\ AdapterItems[1].probability = JsonNumber(-20)
    /\ AdapterItems[2].probability = JsonNumber(150)
    /\ airun.out.predictions[1].probability = 0
    /\ airun.out.predictions[2].probability = 100

\* C9: every prediction analyzeWithAI returns has a difficulty among Easy,
\* Medium, Hard and a section among A, B, C; an adapter difficulty outside the
\* set comes back as Medium and an adapter section outside the set as A.
C9_DifficultyAndSectionInDomain ==
    airun.pc = "out" =>
        /\ \A n \in DOMAIN airun.out.predictions :
                /\ airun.out.predictions[n].difficulty \in {"Easy", "Medium", "Hard"}
                /\ airun.out.predictions[n].section \in {"A", "B", "C"}
        /\ airun.source = "adapter" =>
                \A n \in DOMAIN AdapterItems :
                    /\ Get(AdapterItems[n], "difficulty", "") \notin {"Easy", "Medium", "Hard"} =>
                            airun.out.predictions[n].difficulty = "Medium"
                    /\ Get(AdapterItems[n], "section", "") \notin {"A", "B", "C"} =>
                            airun.out.predictions[n].section = "A"

C9_OutOfDomainReplaced ==
    /\ airun.pc = "out"
    /\ airun.source = "adapter"
    /\ \E n \in DOMAIN AdapterItems :
            /\ Get(AdapterItems[n], "difficulty", "") = "Extreme"
            /\ Get(AdapterItems[n], "section", "") = "D"
            /\ airun.out.predictions[n].difficulty = "Medium"
            /\ airun.out.predictions[n].section = "A"

\* C10, as the specification states it: an adapter prediction whose type is not
\* one of Short Answer, Long Answer, Numerical, Derivation is returned with
\* type 'Long Answer'.
C10_UnrecognizedTypeBecomesLongAnswer ==
    (airun.pc = "out" /\ airun.source = "adapter") =>
        \A n \in DOMAIN AdapterItems :
            Get(AdapterItems[n], "type", "") \notin
                    {"Short Answer", "Long Answer", "Numerical", "Derivation"} =>
                airun.out.predictions[n].type = "Long Answer"

(***************************************************************************)
(* Successive analyzeWithAI calls in one process                           *)
(***************************************************************************)
MaxRepeatCalls == 2

RepeatQuestions == {<<>>, <<Q_Entropy>>, <<Q_Sort, Q_Twice>>}

InitRepeat ==
    /\ HandlerInit
    /\ apiKey \in BOOLEAN
    /\ keyrun = KeyIdle
    /\ airun = AiIdle
    /\ OthersIdle

\* one more call; `reply' is what the adapter answers if the call reaches it
CallRepeated(questions, subject, examName, reply) ==
    /\ Len(aicalls) < MaxRepeatCalls
    /\ LET client == initializeOpenAI(apiKey, openai)
       IN  /\ openai' = client
           /\ aicalls' = Append(aicalls,
                            [questions |-> questions, subject |-> subject,
                             examName |-> examName, configured |-> client # NULL,
                             reply |-> reply,
                             out |-> analyzeWithAI(client, questions, subject, examName, reply)])
    /\ UNCHANGED <<cache, now, jobs, apiKey, pc, req, loc, resp, calls, worker, keyrun, airun,
                   fbrun, scanrun, probe, updates>>

NextRepeat ==
    \E q \in RepeatQuestions, s \in Subjects, e \in Exams, reply \in HandlerReplies :
        CallRepeated(q, s, e, reply)

SpecRepeat == InitRepeat /\ [][NextRepeat]_vars

MaxFallbackQuestions == 2

FallbackInputs ==
    {[pc |-> "in", questions |-> q, subject |-> s, out |-> NULL] :
        q \in SeqsUpTo(QuestionPool, MaxFallbackQuestions), s \in Subjects}

InitFallback ==
    /\ HandlerInit
    /\ apiKey = FALSE
    /\ keyrun = KeyIdle
    /\ airun = AiIdle
    /\ aicalls = <<>>
    /\ scanrun = ScanIdle
    /\ probe = ProbeIdle
    /\ updates = <<>>
    /\ fbrun \in FallbackInputs

CallFallback ==
    /\ fbrun.pc = "in"
    /\ fbrun' = [fbrun EXCEPT
                    !.pc = "out",
                    !.out = generateFallbackPredictions(fbrun.questions, fbrun.subject)]
    /\ UNCHANGED <<cache, now, jobs, apiKey, openai, pc, req, loc, resp, calls, worker, keyrun,
                   airun, aicalls, scanrun, probe, updates>>

NextFallback == CallFallback

SpecFallback == InitFallback /\ [][NextFallback]_vars

\* the keywords that occur in at least one of the questions
MatchedKeywords(questions) == UNION {HitsOf[questions[i]] : i \in DOMAIN questions}

\* C12: generateFallbackPredictions returns between 1 and 10 predictions: one
\* per matched keyword and at most 10 when a keyword matches, and the five
\* generic predictions of the subject when the list is empty or holds no keyword.
C12_FallbackSizeBounded ==
    fbrun.pc = "out" =>
        LET predictions == fbrun.out.predictions
            matched == Cardinality(MatchedKeywords(fbrun.questions))
        IN  /\ Len(predictions) >= 1
            /\ Len(predictions) <= 10
            /\ matched > 0 => Len(predictions) = (IF matched < 10 THEN matched ELSE 10)
            /\ matched = 0 =>
                    [n \in DOMAIN predictions |-> predictions[n].topic]
                        = GenericTopics(fbrun.subject)

C12_TenOfTwelveTopics ==
    /\ fbrun.pc = "out"
    /\ Cardinality(MatchedKeywords(fbrun.questions)) > 10
    /\ Len(fbrun.out.predictions) = 10

(***************************************************************************)
(* extractTextFromScannedPDF on what the two PDF parsers answer            *)
(***************************************************************************)
MaxScanPages == 2

\* a text layer of n characters, n >= 20
LayerText(n) == [id |-> "layer", chars |-> n - 12, gaps |-> 8, ws |-> 12, pad |-> 0,
                 clean |-> FALSE]

\* extractTextWithPdf2Json resolves: the parser failed (dataError, or an
\* exception it caught), or it gives the raw text
Pdf2JsonAnswers ==
    {[success |-> FALSE, numPages |-> 0, text |-> EmptyText],
     [success |-> TRUE, numPages |-> 1, text |-> EmptyText]}
    \cup {[success |-> TRUE, numPages |-> 1, text |-> LayerText(n)] : n \in {99, 100, 101}}

PageTexts == {EmptyText, LayerText(39), LayerText(99), LayerText(100), LayerText(101)}

\* convertPDFToImagesWithPdfJs returns: it caught an exception, or it gives the
\* text of the pages it read
PdfJsAnswers ==
    {[pages |-> <<>>, numPages |-> 0, success |-> FALSE]}
    \cup {[pages |-> p, numPages |-> Len(p), success |-> TRUE] :
            p \in SeqsUpTo(PageTexts, MaxScanPages)}

InitScan ==
    /\ HandlerInit
    /\ apiKey = FALSE
    /\ keyrun = KeyIdle
    /\ airun = AiIdle
    /\ aicalls = <<>>
    /\ fbrun = FallbackIdle
    /\ probe = ProbeIdle
    /\ updates = <<>>
    /\ scanrun \in {[pc |-> "in", pdf2json |-> a, pdfjs |-> b, attempted |-> <<>>, out |-> NULL] :
                        a \in Pdf2JsonAnswers, b \in PdfJsAnswers}

CallScannedPDF ==
    /\ scanrun.pc = "in"
    /\ scanrun' = [scanrun EXCEPT
                      !.pc = "out",
                      !.attempted = ScannedPDFAttempts(scanrun.pdf2json, scanrun.pdfjs),
                      !.out = ScannedPDFResult(scanrun.pdf2json, scanrun.pdfjs)]
    /\ UNCHANGED <<cache, now, jobs, apiKey, openai, pc, req, loc, resp, calls, worker, keyrun,
                   airun, aicalls, fbrun, probe, updates>>

NextScan == CallScannedPDF

SpecScan == InitScan /\ [][NextScan]_vars

\* the length of the text the second parser's pages join to
JoinedLength == TextLength(JoinPages(scanrun.pdfjs.pages))

\* C13, as the specification states it: the strategies run in the order
\* text layer (pdf2json), second text layer (pdfjs-dist), recognition (OCR);
\* one runs if and only if every earlier one failed, so recognition runs
\* whenever both text layers failed.
C13_CascadeEndsInRecognition ==
    scanrun.pc = "out" =>
        LET tried == scanrun.attempted
            firstWon == scanrun.out.method = "pdf2json"
            secondWon == scanrun.out.method = "pdfjs-dist"
        IN  /\ tried \in {<<"pdf2json">>, <<"pdf2json", "pdfjs-dist">>,
                           <<"pdf2json", "pdfjs-dist", "ocr">>}
            /\ Len(tried) >= 2 <=> ~firstWon
            /\ Len(tried) >= 3 <=> (~firstWon /\ ~secondWon)

\* C14, as the specification states it: a text layer of at least 100
\* characters is accepted and ends the cascade; one of 99 is rejected.
C14_HundredCharactersAccepted ==
    scanrun.pc = "out" =>
        LET first == scanrun.pdf2json
        IN  /\ (first.success /\ TextLength(first.text) >= 100) =>
                    scanrun.out.method = "pdf2json"
            /\ (first.success /\ TextLength(first.text) = 99) =>
                    scanrun.out.method # "pdf2json"
            /\ (~(first.success /\ TextLength(first.text) >= 100)
                    /\ scanrun.pdfjs.success /\ JoinedLength >= 100) =>
                    scanrun.out.method = "pdfjs-dist"

\* C15: extractTextFromScannedPDF always returns a value, and when no strategy
\* gives a usable text (a parser failed or raised inside, or its text is too
\* short) the value has success false, method 'none', an error and a suggestion.
C15_NoStrategyResultExplains ==
    scanrun.pc = "out" =>
        /\ scanrun.out # NULL
        /\ scanrun.out.method \in {"pdf2json", "pdfjs-dist", "none"}
        /\ (~(scanrun.pdf2json.success /\ TextLength(scanrun.pdf2json.text) > 100)
                /\ ~(scanrun.pdfjs.success /\ JoinedLength > 100)) =>
                /\ ~scanrun.out.success
                /\ TextLength(scanrun.out.text) = 0
        /\ ~scanrun.out.success =>
                /\ scanrun.out.method = "none"
                /\ scanrun.out.error # ""
                /\ scanrun.out.suggestion # ""

C15_BothParsersFailed ==
    /\ scanrun.pc = "out"
    /\ ~scanrun.pdf2json.success
    /\ ~scanrun.pdfjs.success
    /\ scanrun.out.method = "none"
    /\ scanrun.out.suggestion # ""

(***************************************************************************)
(* C16                                                                     *)
(***************************************************************************)
\* the percentages the run of job j passed to updateProgress, in order
UpdateArgs(j) ==
    LET ups == SelectSeq(calls[j], LAMBDA c : c.fn = "updateProgress")
    IN  [p \in DOMAIN ups |-> ups[p].arg]

\* round((i + 1) / n * 70) + 10 for the files 0 .. n-1 of a request of n files
RoundedFilePercents(n) ==
    CASE n = 0 -> {}
      [] n = 1 -> {80}
      [] n = 2 -> {45, 80}
      [] n = 3 -> {33, 57, 80}

HandlerUpdatesAscend ==
    \A j \in Jobs :
        LET args == UpdateArgs(j)
        IN  /\ \A p, q \in DOMAIN args : p < q => args[p] <= args[q]
            /\ Len(args) > 0 => args[1] = 5
            /\ \A p \in DOMAIN args :
                    args[p] \in {5, 85, 95} \cup RoundedFilePercents(Len(req[j].files))
            /\ \A p \in CallsOf(j, "updateProgress") :
               \A q \in CallsOf(j, "completeJob") \cup CallsOf(j, "failJob") : p < q

TrackerStepAscends ==
    \A id \in DOMAIN jobs :
        /\ id \in DOMAIN jobs'
        /\ jobs'[id].progress >= jobs[id].progress
        /\ Terminal(jobs, id) => jobs'[id] = jobs[id]

\* C16: a job's progress never decreases, whatever updates arrive and from
\* whom, and a completed or failed job is not changed by any later call; the
\* handler passes 5, then round((i+1)/n*70)+10 per file, then 85, then 95 to
\* updateProgress, a non-decreasing sequence, and calls updateProgress only
\* before completeJob or failJob.
C16_ProgressNeverDecreases == [](HandlerUpdatesAscend) /\ [][TrackerStepAscends]_vars

C16_LateAndLowUpdates ==
    \E j \in Jobs :
        /\ pc[j] = "done"
        /\ UpdateArgs(j) = <<5, 45, 45, 80, 85, 95>>
        /\ CallsOf(j, "completeJob") # {}
        /\ jobs[j].status = "Completed"
        /\ jobs[j].progress = 100
        /\ \E k \in DOMAIN updates :
                updates[k].id = j /\ updates[k].late /\ updates[k].percent = 0

(***************************************************************************)
(* C17                                                                     *)
(***************************************************************************)
\* the places in the run of job j where completeJob or failJob was called
TerminalCalls(j) == CallsOf(j, "completeJob") \cup CallsOf(j, "failJob")

\* C17: a run that created a job calls exactly one of completeJob and failJob,
\* exactly once, by the time it has answered, and never calls failJob after
\* completeJob.
C17_OneTerminalCall ==
    \A j \in Jobs :
        /\ Cardinality(TerminalCalls(j)) <= 1
        /\ (pc[j] = "done" /\ CallsOf(j, "createJob") # {}) =>
                Cardinality(TerminalCalls(j)) = 1
        /\ \A p \in CallsOf(j, "completeJob"), q \in CallsOf(j, "failJob") : q < p

MaxClock == 3
CacheTtls == {1, 2}
CacheKeys == {generateCacheKey(<<notesTxt>>, "Physics", "Final"),
              generateCacheKey(<<scanPdf, smudgeJpg>>, "Algorithms", "Final")}
CachePayloads == {[summary |-> <<"Optics">>], [summary |-> <<"Sorting">>]}

InitCache ==
    /\ HandlerInit
    /\ apiKey = FALSE
    /\ keyrun = KeyIdle
    /\ airun = AiIdle
    /\ aicalls = <<>>
    /\ fbrun = FallbackIdle
    /\ scanrun = ScanIdle
    /\ updates = <<>>
    /\ probe = [pc |-> "cache", stored |-> [k \in CacheKeys |-> NULL], last |-> NULL]

StoreEntry(key, data, ttl) ==
    /\ cache' = cacheAnalysis(cache, key, data, ttl, now)
    /\ probe' = [probe EXCEPT !.stored[key] = [data |-> data, ttl |-> ttl, at |-> now,
                                               over |-> key \in DOMAIN cache],
                              !.last = NULL]
    /\ UNCHANGED <<now, jobs, apiKey, openai, pc, req, loc, resp, calls, worker,
                   keyrun, airun, aicalls, fbrun, scanrun, updates>>

LookupEntry(key) ==
    LET got == getCachedAnalysis(cache, key, now)
    IN  /\ cache' = got.cache
        /\ probe' = [probe EXCEPT !.last = [key |-> key, at |-> now, ret |-> got.ret,
                                            stored |-> probe.stored[key],
                                            before |-> cache, after |-> got.cache]]
        /\ UNCHANGED <<now, jobs, apiKey, openai, pc, req, loc, resp, calls, worker,
                       keyrun, airun, aicalls, fbrun, scanrun, updates>>

\* cleanupExpiredEntries called on its own
SweepEntries ==
    /\ cache' = cleanupExpiredEntries(cache, now)
    /\ cache' # cache
    /\ probe' = [probe EXCEPT !.last = NULL]
    /\ UNCHANGED <<now, jobs, apiKey, openai, pc, req, loc, resp, calls, worker,
                   keyrun, airun, aicalls, fbrun, scanrun, updates>>

ClockTick ==
    /\ now < MaxClock
    /\ now' = now + 1
    /\ probe' = [probe EXCEPT !.last = NULL]
    /\ UNCHANGED <<cache, jobs, apiKey, openai, pc, req, loc, resp, calls, worker,
                   keyrun, airun, aicalls, fbrun, scanrun, updates>>

NextCache ==
    \/ \E key \in CacheKeys, data \in CachePayloads, ttl \in CacheTtls : StoreEntry(key, data, ttl)
    \/ \E key \in CacheKeys : LookupEntry(key)
    \/ SweepEntries
    \/ ClockTick

SpecCache == InitCache /\ [][NextCache]_vars

(***************************************************************************)
(* C19                                                                     *)
(***************************************************************************)
\* the last lookup was of a key stored before it
LookedUpStored ==
    /\ probe.pc = "cache"
    /\ probe.last # NULL
    /\ probe.last.stored # NULL

\* C19: an entry stored with lifetime T at time t0 is returned by a lookup at
\* t0 + T - 1 and is a miss for a lookup at t0 + T + 1.
C19_LifetimeBoundary ==
    LookedUpStored =>
        LET s == probe.last.stored
        IN  /\ probe.last.at = s.at + s.ttl - 1 => probe.last.ret = s.data
            /\ probe.last.at = s.at + s.ttl + 1 => probe.last.ret = NULL

C19_LookupJustAfterExpiry ==
    /\ LookedUpStored
    /\ probe.last.stored.ttl = 2
    /\ probe.last.at = probe.last.stored.at + probe.last.stored.ttl + 1
    /\ probe.last.key \in DOMAIN probe.last.before
    /\ probe.last.ret = NULL

(***************************************************************************)
(* C20                                                                     *)
(***************************************************************************)
\* the last lookup met an entry whose lifetime had passed
LookedUpExpired ==
    /\ probe.pc = "cache"
    /\ probe.last # NULL
    /\ probe.last.key \in DOMAIN probe.last.before
    /\ probe.last.stored # NULL
    /\ probe.last.at > probe.last.stored.at + probe.last.stored.ttl

\* C20: a lookup of an expired key is a miss, removes that entry, and leaves
\* every other entry, expired or not, as it was.
C20_LazyEviction ==
    LookedUpExpired =>
        /\ probe.last.ret = NULL
        /\ probe.last.key \notin DOMAIN probe.last.after
        /\ DOMAIN probe.last.after = DOMAIN probe.last.before \ {probe.last.key}
        /\ \A k \in DOMAIN probe.last.after : probe.last.after[k] = probe.last.before[k]

C20_OtherExpiredEntryKept ==
    /\ LookedUpExpired
    /\ \E k \in DOMAIN probe.last.after :
            /\ probe.last.at > probe.last.before[k].expiresAt
            /\ probe.last.after[k] = probe.last.before[k]

(***************************************************************************)
(* C21                                                                     *)
(***************************************************************************)
\* C21: whatever stores, lookups and sweeps were made, the entry the cache
\* holds under a key is the one the most recent cacheAnalysis for that key
\* stored (its payload, its expiry), and a lookup of a key whose latest entry
\* has not expired returns that latest payload.
C21_LatestStoreWins ==
    probe.pc = "cache" =>
        /\ \A k \in DOMAIN cache :
                /\ probe.stored[k] # NULL
                /\ cache[k].data = probe.stored[k].data
                /\ cache[k].expiresAt = probe.stored[k].at + probe.stored[k].ttl
        /\ (probe.last # NULL /\ probe.last.stored # NULL
                /\ probe.last.at <= probe.last.stored.at + probe.last.stored.ttl) =>
                /\ probe.last.ret = probe.last.stored.data
                /\ probe.last.key \in DOMAIN probe.last.after
                /\ probe.last.after[probe.last.key].expiresAt
                        = probe.last.stored.at + probe.last.stored.ttl

C21_OverwrittenThenRead ==
    /\ probe.pc = "cache"
    /\ probe.last # NULL
    /\ probe.last.stored # NULL
    /\ probe.last.stored.over
    /\ probe.last.stored.data = [summary |-> <<"Sorting">>]
    /\ probe.last.stored.ttl = 1
    /\ probe.last.at = probe.last.stored.at + 1
    /\ probe.last.ret = [summary |-> <<"Sorting">>]

(***************************************************************************)
(* The cache service when the cache is about as large as the threshold of  *)
(* line 436: it holds 99 to 101 entries stored at time 0, the first few    *)
(* with a lifetime of a millisecond, the others with the default one.      *)
(* Keys are numbered.  probe counts the stores made and, in last, holds    *)
(* the store just made with the cache before and after it.                 *)
(***************************************************************************)
MaxShortLived == 2
MaxStores == 2
FilledSizes == {99, 100, 101}
StoredKeys == {1, 101, 102}
StoredTtls == {1, CACHE_TTL}

FilledCache(size, short) ==
    [k \in 1..size |->
        [data |-> [summary |-> <<"Optics">>],
         expiresAt |-> IF k <= short THEN 1 ELSE CACHE_TTL,
         createdAt |-> 0]]

InitSweep ==
    /\ \E size \in FilledSizes, short \in 0..MaxShortLived : cache = FilledCache(size, short)
    /\ now = 0
    /\ jobs = << >>
    /\ apiKey = FALSE
    /\ openai = NULL
    /\ worker = NULL
    /\ pc = [j \in Jobs |-> "idle"]
    /\ req = [j \in Jobs |-> NoRequest]
    /\ loc = [j \in Jobs |-> InitLoc]
    /\ resp = [j \in Jobs |-> NULL]
    /\ calls = [j \in Jobs |-> <<>>]
    /\ keyrun = KeyIdle
    /\ airun = AiIdle
    /\ aicalls = <<>>
    /\ fbrun = FallbackIdle
    /\ scanrun = ScanIdle
    /\ updates = <<>>
    /\ probe = [pc |-> "sweep", stores |-> 0, last |-> NULL]

StoreWhenFull(key, ttl) ==
    /\ probe.stores < MaxStores
    /\ cache' = cacheAnalysis(cache, key, [summary |-> <<"Sorting">>], ttl, now)
    /\ probe' = [probe EXCEPT !.stores = @ + 1,
                              !.last = [key |-> key, at |-> now, ttl |-> ttl,
                                        before |-> cache, after |-> cache']]
    /\ UNCHANGED <<now, jobs, apiKey, openai, pc, req, loc, resp, calls, worker,
                   keyrun, airun, aicalls, fbrun, scanrun, updates>>

NextSweep ==
    \/ \E key \in StoredKeys, ttl \in StoredTtls : StoreWhenFull(key, ttl)
    \/ ClockTick

SpecSweep == InitSweep /\ [][NextSweep]_vars

(***************************************************************************)
(* C22                                                                     *)
(***************************************************************************)
\* the keys the cache holds once the store just made has set its entry
KeysAfterSet == DOMAIN probe.last.before \cup {probe.last.key}

\* C22: when a cacheAnalysis call leaves more than 100 entries in the cache,
\* the sweep runs inside the call: straight after it no entry of the cache has
\* an expiry time that has passed, and every unexpired entry is still there.
C22_SweepAboveThreshold ==
    (probe.pc = "sweep" /\ probe.last # NULL /\ Cardinality(KeysAfterSet) > 100) =>
        /\ \A k \in DOMAIN probe.last.after : ~(probe.last.at > probe.last.after[k].expiresAt)
        /\ \A k \in DOMAIN probe.last.before \ {probe.last.key} :
                ~(probe.last.at > probe.last.before[k].expiresAt) =>
                    /\ k \in DOMAIN probe.last.after
                    /\ probe.last.after[k] = probe.last.before[k]
        /\ probe.last.key \in DOMAIN probe.last.after
        /\ probe.last.after[probe.last.key].expiresAt = probe.last.at + probe.last.ttl

C22_ExpiredEntriesSwept ==
    /\ probe.pc = "sweep"
    /\ probe.last # NULL
    /\ Cardinality(KeysAfterSet) = 101
    /\ Cardinality({k \in DOMAIN probe.last.before :
                        probe.last.at > probe.last.before[k].expiresAt}) = 2
    /\ Cardinality(DOMAIN probe.last.after) = 99

(***************************************************************************)
(* initializeWorker called by concurrent extractTextFromImage calls.  The  *)
(* function runs in two pieces: up to its await (the test of worker and    *)
(* the call of Tesseract.createWorker), and, when the promise resolves,    *)
(* from the assignment of worker to the return.  probe holds each caller's *)
(* position, the instance its createWorker call is making, the instance it *)
(* was given, and the number of createWorker calls.                        *)
(***************************************************************************)
MaxCallers == 3
Callers == 1..MaxCallers

InitWorker ==
    /\ HandlerInit
    /\ apiKey = FALSE
    /\ keyrun = KeyIdle
    /\ airun = AiIdle
    /\ aicalls = <<>>
    /\ fbrun = FallbackIdle
    /\ scanrun = ScanIdle
    /\ updates = <<>>
    /\ probe = [pc |-> "worker", created |-> 0,
                at |-> [c \in Callers |-> "idle"],
                making |-> [c \in Callers |-> 0],
                got |-> [c \in Callers |-> NULL]]

WorkerUnchanged ==
    UNCHANGED <<cache, now, jobs, apiKey, openai, pc, req, loc, resp, calls,
                keyrun, airun, aicalls, fbrun, scanrun, updates>>

\* lines 223-226 up to the await: worker is null, createWorker is called
EnterCreates(c) ==
    /\ probe.at[c] = "idle"
    /\ worker = NULL
    /\ probe' = [probe EXCEPT !.created = @ + 1,
                              !.at[c] = "awaiting",
                              !.making[c] = probe.created + 1]
    /\ UNCHANGED worker
    /\ WorkerUnchanged

\* lines 224, 238: worker is set, it is returned
EnterReturns(c) ==
    /\ probe.at[c] = "idle"
    /\ worker # NULL
    /\ probe' = [probe EXCEPT !.at[c] = "returned", !.got[c] = worker]
    /\ UNCHANGED worker
    /\ WorkerUnchanged

\* lines 226-238 after the await: the instance is assigned and returned
ResumeAssigns(c) ==
    /\ probe.at[c] = "awaiting"
    /\ worker' = [instance |-> probe.making[c]]
    /\ probe' = [probe EXCEPT !.at[c] = "returned", !.got[c] = worker']
    /\ WorkerUnchanged

NextWorker ==
    \/ \E c \in Callers : EnterCreates(c)
    \/ \E c \in Callers : EnterReturns(c)
    \/ \E c \in Callers : ResumeAssigns(c)

SpecWorker == InitWorker /\ [][NextWorker]_vars

(***************************************************************************)
(* C23                                                                     *)
(***************************************************************************)
\* C23: however concurrent initializeWorker calls interleave, createWorker is
\* invoked once and every caller is given the same instance.
C23_SingleFlight ==
    probe.pc = "worker" =>
        /\ probe.created <= 1
        /\ \A c, d \in Callers :
                (probe.at[c] = "returned" /\ probe.at[d] = "returned") =>
                    probe.got[c] = probe.got[d]

(***************************************************************************)
(* C24                                                                     *)
(***************************************************************************)
\* C24: a call of analyzeWithAI sends a request to the adapter only when the
\* process has an API key and the question list is not empty; without a key
\* or without questions no request is sent and the value returned is the
\* keyword fallback for the questions.
C24_AdapterOnlyWithClientAndQuestions ==
    airun.pc = "out" =>
        /\ airun.invoked => (apiKey /\ Len(airun.questions) > 0)
        /\ (~apiKey \/ Len(airun.questions) = 0) =>
                /\ ~airun.invoked
                /\ airun.source = "fallback"
                /\ airun.out = generateFallbackPredictions(airun.questions, airun.subject)

C24_ClientButNoQuestions ==
    /\ airun.pc = "out"
    /\ apiKey
    /\ openai # NULL
    /\ airun.questions = <<>>
    /\ airun.reply.kind = "json"
    /\ ~airun.invoked
    /\ airun.out = generateFallbackPredictions(<<>>, airun.subject)
    /\ Len(airun.out.predictions) > 0

(***************************************************************************)
(* C25                                                                     *)
(***************************************************************************)
\* the adapter was called and answered a JSON object with a predictions array
\* of objects, but without summary or without trends
SchemaDeviation ==
    /\ airun.invoked
    /\ airun.reply.kind = "json"
    /\ airun.reply.value # NULL
    /\ "predictions" \in DOMAIN airun.reply.value
    /\ airun.reply.value.predictions.array
    /\ \A n \in DOMAIN airun.reply.value.predictions.items :
            airun.reply.value.predictions.items[n] # NULL
    /\ \/ "summary" \notin DOMAIN airun.reply.value
       \/ "trends" \notin DOMAIN airun.reply.value

\* C25: an adapter reply with a valid predictions array whose summary or trends
\* is missing counts as an adapter failure: analyzeWithAI returns the keyword
\* fallback, not the adapter's predictions.
C25_SchemaDeviationFallsBack ==
    (airun.pc = "out" /\ SchemaDeviation) =>
        airun.out = generateFallbackPredictions(airun.questions, airun.subject)

(***************************************************************************)
(* C26                                                                     *)
(***************************************************************************)
\* a file of the run of job j whose text the recognition engine produced: an
\* image Tesseract could read (no PDF is ever rasterized and recognized)
RecognitionUsed(j) ==
    \E k \in DOMAIN req[j].files :
        /\ Documents[req[j].files[k].buffer].kind = "image"
        /\ Documents[req[j].files[k].buffer].recognized

OcrWarning == "OCR was used for some files. Results may vary based on image quality."

\* C26: in the result of a run, analysis.ocrUsed is true and the OCR warning is
\* present exactly when the text of at least one file came from OCR
\* recognition; a run none of whose texts came from recognition (plain text,
\* PDF text layers) has no warning at all.
C26_WarningsFollowMethods ==
    \A j \in Jobs :
        (pc[j] = "done" /\ loc[j].result # NULL) =>
            LET result == loc[j].result
            IN  /\ result.analysis.ocrUsed <=> RecognitionUsed(j)
                /\ (\E n \in DOMAIN result.warnings : result.warnings[n] = OcrWarning)
                        <=> RecognitionUsed(j)
                /\ ~RecognitionUsed(j) => result.warnings = <<>>

(***************************************************************************)
(* C27                                                                     *)
(***************************************************************************)
\* C27: whatever the type of the file, a text the handler hands to
\* extractQuestions has been through cleanOCRText.
C27_EveryTextCleaned ==
    \A j \in Jobs :
        \A k \in DOMAIN loc[j].texts :
            Usable(loc[j].texts[k]) => loc[j].texts[k].clean

(***************************************************************************)
(* C28                                                                     *)
(***************************************************************************)
\* the multiset of the contents of a file list: how often each buffer occurs
FileContents(files) ==
    [b \in {files[i].buffer : i \in DOMAIN files} |->
        Cardinality({i \in DOMAIN files : files[i].buffer = b})]

\* C28: a run that is answered from the cache is given a result that an
\* earlier run computed from the same multiset of file contents, the same
\* subject and the same examName.
C28_HitOnlyForSameSubmission ==
    \A j \in Jobs :
        (pc[j] = "done" /\ loc[j].cachedResult # NULL) =>
            \E i \in Jobs \ {j} :
                /\ loc[i].result = loc[j].cachedResult
                /\ FileContents(req[i].files) = FileContents(req[j].files)
                /\ req[i].subject = req[j].subject
                /\ req[i].examName = req[j].examName

(***************************************************************************)
(* C29                                                                     *)
(***************************************************************************)
\* the place in keywords of the keyword a fallback prediction is about
KeywordOf(prediction) == CHOOSE k \in DOMAIN keywords : keywords[k].cap = prediction.topic

\* the number of questions a keyword occurs in
Frequency(questions, k) == Cardinality({i \in DOMAIN questions : k \in HitsOf[questions[i]]})

\* the first question a keyword occurs in
FirstQuestionWith(questions, k) ==
    CHOOSE i \in DOMAIN questions :
        /\ k \in HitsOf[questions[i]]
        /\ \A h \in DOMAIN questions : k \in HitsOf[questions[h]] => i <= h

\* keyword a was met before keyword b: in an earlier question, or in the same
\* question and earlier in the keyword list
MetBefore(questions, a, b) ==
    \/ FirstQuestionWith(questions, a) < FirstQuestionWith(questions, b)
    \/ /\ FirstQuestionWith(questions, a) = FirstQuestionWith(questions, b)
       /\ a < b

\* C29: when a keyword matches, the fallback predictions are in descending
\* order of keyword frequency, equally frequent keywords in the order they
\* were first met; the first one is about a keyword of maximal frequency, and
\* the ids are 1..n in that order.
C29_RankedByFrequency ==
    (fbrun.pc = "out" /\ MatchedKeywords(fbrun.questions) # {}) =>
        LET predictions == fbrun.out.predictions
            qs == fbrun.questions
        IN  /\ \A n \in DOMAIN predictions : predictions[n].id = n
            /\ \A n \in DOMAIN predictions : KeywordOf(predictions[n]) \in MatchedKeywords(qs)
            /\ \A n, m \in DOMAIN predictions :
                    n < m =>
                        LET a == KeywordOf(predictions[n])
                            b == KeywordOf(predictions[m])
                        IN  \/ Frequency(qs, a) > Frequency(qs, b)
                            \/ /\ Frequency(qs, a) = Frequency(qs, b)
                               /\ MetBefore(qs, a, b)
            /\ \A k \in MatchedKeywords(qs) :
                    Frequency(qs, KeywordOf(predictions[1])) >= Frequency(qs, k)

C29_FrequentTopicOvertakes ==
    /\ fbrun.pc = "out"
    /\ fbrun.questions = <<Q_Sort, Q_Twice>>
    /\ [n \in DOMAIN fbrun.out.predictions |-> fbrun.out.predictions[n].topic]
            = <<"Sorting", "Algorithm", "Array">>
    /\ [n \in DOMAIN fbrun.out.predictions |-> fbrun.out.predictions[n].id] = <<1, 2, 3>>

(***************************************************************************)
(* C30                                                                     *)
(***************************************************************************)
\* C30: in a keyword-fallback list of n predictions the ranks of the top third
\* of the list are Easy, those of the middle third Medium and the others Hard
\* (stated for the ranks that lie wholly inside a third of the list).  The
\* code draws the tiers at ranks 3 and 7 whatever n is, so a list of three
\* predictions is Easy throughout.
C30_DifficultyByThirdsOfList ==
    (fbrun.pc = "out" /\ MatchedKeywords(fbrun.questions) # {}) =>
        LET predictions == fbrun.out.predictions
            n == Len(predictions)
        IN  \A r \in DOMAIN predictions :
                /\ 3 * r <= n => predictions[r].difficulty = "Easy"
                /\ (3 * (r - 1) >= n /\ 3 * r <= 2 * n) => predictions[r].difficulty = "Medium"
                /\ 3 * (r - 1) >= 2 * n => predictions[r].difficulty = "Hard"

(***************************************************************************)
(* C31                                                                     *)
(***************************************************************************)
\* the places of lower where kw starts: every occurrence of kw in the text
OccurrencesIn(lower, words) ==
    {s \in 1..(Len(lower) - Len(words) + 1) :
        \A d \in 1..Len(words) :
            IF Len(words) = 1 THEN WordIncludes(lower[s + d - 1], words[d])
            ELSE lower[s + d - 1] = words[d]}

RECURSIVE TotalOccurrences(_, _)
TotalOccurrences(questions, k) ==
    IF questions = <<>> THEN 0
    ELSE Cardinality(OccurrencesIn(toLowerCase(Head(questions)), keywords[k].words))
            + TotalOccurrences(Tail(questions), k)

\* C31: the frequency of a keyword in the fallback (the count its prediction
\* reports and is ranked by) is the total number of its occurrences in the
\* question text.  The code adds one per question that includes the keyword,
\* so a keyword met twice in one question counts 1.
C31_FrequencyCountsOccurrences ==
    (fbrun.pc = "out" /\ MatchedKeywords(fbrun.questions) # {}) =>
        \A n \in DOMAIN fbrun.out.predictions :
            fbrun.out.predictions[n].rationale[2]
                = ToString(TotalOccurrences(fbrun.questions,
                                            KeywordOf(fbrun.out.predictions[n])))

(***************************************************************************)
(* C32                                                                     *)
(***************************************************************************)
\* the calls an iteration of the file loop makes on its file
FileStageCalls == ExtractionCalls \cup {"extractQuestions"}

\* C32: within one job the files go through the loop one at a time in
\* submission order: fileResults holds the entries of the first files of the
\* submission, in that order; the calls made on the files come in the order of
\* the files; and a file is only extracted when every file before it has its
\* entry (the file an exception stopped at has none).
C32_OneFileAtATimeInOrder ==
    \A j \in Jobs :
        Missed(j) =>
            LET entries == loc[j].fileResults
                stopped == IF loc[j].thrown = "extractQuestions failed" THEN 1 ELSE 0
            IN  /\ Len(entries) = loc[j].i
                /\ Len(entries) <= Len(req[j].files)
                /\ \A m \in DOMAIN entries :
                        entries[m].filename = req[j].files[m].originalname
                /\ \A p, q \in DOMAIN calls[j] :
                        (/\ p < q
                         /\ calls[j][p].fn \in FileStageCalls
                         /\ calls[j][q].fn \in FileStageCalls)
                            => calls[j][p].arg <= calls[j][q].arg
                /\ \A p \in DOMAIN calls[j] :
                        calls[j][p].fn \in FileStageCalls
                            => calls[j][p].arg <= Len(entries) + stopped

C32_PdfThenImageExtracted ==
    \E j \in Jobs :
        /\ pc[j] = "done"
        /\ Missed(j)
        /\ resp[j].status = 200
        /\ req[j].files = <<paperPdf, pagePng>>
        /\ [m \in DOMAIN loc[j].fileResults |-> loc[j].fileResults[m].filename]
                = <<"paper.pdf", "page.png">>
        /\ \E p, q \in DOMAIN calls[j] :
                /\ p < q
                /\ calls[j][p] = Call("extractTextFromPDF", 1)
                /\ calls[j][q] = Call("extractTextFromImage", 2)

(***************************************************************************)
(* C33                                                                     *)
(***************************************************************************)
RECURSIVE QuestionsFound(_)
QuestionsFound(entries) ==
    IF entries = <<>> THEN 0
    ELSE Head(entries).questionsFound + QuestionsFound(Tail(entries))

\* C33: in every assembled result fileResults has one entry per submitted file
\* (entry m is that of file m), papersAnalyzed is the number of submitted files,
\* questionsExtracted is the sum of questionsFound over fileResults and
\* pagesProcessed is the sum of pages over the entries with status 'success'.
C33_ReportAccounting ==
    \A j \in Jobs :
        loc[j].result # NULL =>
            LET analysis == loc[j].result.analysis
                entries == analysis.fileResults
            IN  /\ Len(entries) = Len(req[j].files)
                /\ \A m \in DOMAIN entries :
                        /\ entries[m].filename = req[j].files[m].originalname
                        /\ entries[m].status \in {"success", "error"}
                /\ analysis.papersAnalyzed = Len(req[j].files)
                /\ analysis.questionsExtracted = QuestionsFound(entries)
                /\ analysis.pagesProcessed = PagesOfSuccesses(entries)

C33_OneSuccessOneError ==
    \E j \in Jobs :
        /\ loc[j].result # NULL
        /\ req[j].files = <<notesTxt, blankTxt>>
        /\ loc[j].result.analysis.papersAnalyzed = 2
        /\ loc[j].result.analysis.questionsExtracted = 2
        /\ loc[j].result.analysis.pagesProcessed = 1
        /\ [m \in 1..2 |-> loc[j].result.analysis.fileResults[m].status]
                = <<"success", "error">>

(***************************************************************************)
(* C34                                                                     *)
(***************************************************************************)
\* the run of job j is about to call completeJob(jobId, result) on the miss path
AboutToComplete(j) == pc[j] = "record"

\* another run with the same cacheKey is past its lookup
SameKeyRun(j) == {o \in Jobs \ {j} : Missed(o) /\ loc[o].cacheKey = loc[j].cacheKey}

\* C34, as written: at the moment completeJob(jobId, result) is called on the
\* miss path, the cache holds an entry under the job's cacheKey whose payload
\* is that result.
C34_ResultCachedAtCompletion ==
    \A j \in Jobs :
        AboutToComplete(j) =>
            /\ loc[j].cacheKey \in DOMAIN cache
            /\ cache[loc[j].cacheKey].data = loc[j].result

\* C34, amended: on the miss path cacheAnalysis(cacheKey, result) is called
\* before completeJob(jobId, result); when completeJob is called the cache
\* holds that result under cacheKey unless another run with the same cacheKey
\* came in between, and then the key is either free (that run's lookup removed
\* the expired entry) or holds the result that run stored.
C34_CachedBeforeCompletion ==
    \A j \in Jobs :
        /\ Missed(j) =>
                \A p \in CallsOf(j, "completeJob") :
                    \E q \in CallsOf(j, "cacheAnalysis") : q < p
        /\ AboutToComplete(j) =>
                /\ CallsOf(j, "cacheAnalysis") # {}
                /\ \/ /\ loc[j].cacheKey \in DOMAIN cache
                      /\ cache[loc[j].cacheKey].data = loc[j].result
                   \/ /\ SameKeyRun(j) # {}
                      /\ \/ loc[j].cacheKey \notin DOMAIN cache
                         \/ \E o \in SameKeyRun(j) :
                                cache[loc[j].cacheKey].data = loc[o].result

C34_CompletedWithCachedResult ==
    \E j \in Jobs :
        /\ pc[j] = "done"
        /\ Missed(j)
        /\ jobs[j].status = "Completed"
        /\ loc[j].cacheKey \in DOMAIN cache
        /\ cache[loc[j].cacheKey].data = jobs[j].result
        /\ \E p \in CallsOf(j, "completeJob"), q \in CallsOf(j, "cacheAnalysis") : q < p

\* two runs with the same cacheKey and different results, no time passing: the
\* second stored its result while the first waited for the database
C34_OverwrittenWhileWaiting ==
    \E j \in Jobs, o \in Jobs :
        /\ now = 0
        /\ AboutToComplete(j)
        /\ o \in SameKeyRun(j)
        /\ loc[o].result # NULL
        /\ loc[o].result # loc[j].result
        /\ cache[loc[j].cacheKey].data = loc[o].result

(***************************************************************************)
(* C35                                                                     *)
(***************************************************************************)
\* the last lookup returned a payload
LookedUpHit ==
    /\ probe.pc = "cache"
    /\ probe.last # NULL
    /\ probe.last.ret # NULL

\* C35: a lookup that returns a payload leaves the whole cache as it was: the
\* entry is not rewritten and still expires its lifetime after the store that
\* created it, whatever lookups came before.
C35_HitLeavesCacheUnchanged ==
    LookedUpHit =>
        /\ probe.last.after = probe.last.before
        /\ probe.last.stored # NULL
        /\ probe.last.after[probe.last.key].data = probe.last.stored.data
        /\ probe.last.after[probe.last.key].createdAt = probe.last.stored.at
        /\ probe.last.after[probe.last.key].expiresAt
                = probe.last.stored.at + probe.last.stored.ttl

C35_HitAtLastInstant ==
    /\ LookedUpHit
    /\ probe.last.stored.ttl = 2
    /\ probe.last.at = probe.last.stored.at + 2
    /\ Cardinality(DOMAIN probe.last.after) = 2
    /\ probe.last.after = probe.last.before

(***************************************************************************)
(* C36                                                                     *)
(***************************************************************************)
\* the entries of the cache before the last store, other than the one stored,
\* whose lifetime had not passed
UnexpiredBeforeStore ==
    {k \in DOMAIN probe.last.before \ {probe.last.key} :
        ~(probe.last.at > probe.last.before[k].expiresAt)}

\* C36: a cacheAnalysis call, with or without the sweep it may run, removes no
\* unexpired entry: every entry set under another key whose expiry has not
\* passed is still there unchanged and is returned by a lookup of its key,
\* however many entries the cache holds.
C36_UnexpiredEntriesSurvive ==
    (probe.pc = "sweep" /\ probe.last # NULL) =>
        \A k \in UnexpiredBeforeStore :
            /\ k \in DOMAIN probe.last.after
            /\ probe.last.after[k] = probe.last.before[k]
            /\ getCachedAnalysis(probe.last.after, k, probe.last.at).ret
                    = probe.last.before[k].data

C36_SweptAroundLastInstantEntry ==
    /\ probe.pc = "sweep"
    /\ probe.last # NULL
    /\ Cardinality(KeysAfterSet) > 100
    /\ \E k \in UnexpiredBeforeStore :
            /\ probe.last.before[k].expiresAt = probe.last.at
            /\ k \in DOMAIN probe.last.after
    /\ \E k \in DOMAIN probe.last.before :
            /\ probe.last.at > probe.last.before[k].expiresAt
            /\ k \notin DOMAIN probe.last.after

(***************************************************************************)
(* C37                                                                     *)
(***************************************************************************)
\* C37: the analysis a request is answered with describes that request:
\* its exam block holds the sanitized examName, subject and subjectCode of the
\* request, on the hit path as on the miss path.  The cache key takes in the
\* files, subject and examName but not subjectCode, so a hit returns the exam
\* block of the request that filled the cache.
C37_ResultDescribesRequest ==
    \A j \in Jobs :
        (resp[j] # NULL /\ resp[j].status = 200) =>
            resp[j].analysis.exam =
                [name |-> sanitizeText(req[j].examName),
                 subject |-> sanitizeText(req[j].subject),
                 subjectCode |-> sanitizeText(req[j].subjectCode)]

(***************************************************************************)
(* C38                                                                     *)
(***************************************************************************)
\* C38: a submission without files is answered 400 before the pipeline starts:
\* the step that takes it in leaves the tracker and the cache as they were
\* (no createJob, completeJob or failJob, no cache write or eviction), makes
\* none of the logged calls (getCachedAnalysis and cacheAnalysis among them)
\* and ends the run.
C38_EmptySubmissionRejected ==
    [][\A j \in Jobs :
            (pc[j] = "idle" /\ pc'[j] # "idle" /\ Len(req'[j].files) = 0) =>
                /\ pc'[j] = "done"
                /\ resp'[j].status = 400
                /\ resp'[j].error = "No files uploaded"
                /\ jobs' = jobs
                /\ j \notin DOMAIN jobs'
                /\ cache' = cache
                /\ calls'[j] = <<>>
                /\ loc'[j] = InitLoc]_vars

C38_RejectedNextToCachedRun ==
    \E j \in Jobs :
        /\ pc[j] = "done"
        /\ Len(req[j].files) = 0
        /\ resp[j].status = 400
        /\ calls[j] = <<>>
        /\ j \notin DOMAIN jobs
        /\ DOMAIN jobs # {}
        /\ DOMAIN cache # {}

(***************************************************************************)
(* Two handler runs on requests that differ in useOCR alone                *)
(***************************************************************************)
NextFlag ==
    \/ \E j \in Jobs, r \in FlagRequests : CacheHit(j, r)
    \/ \E j \in Jobs, r \in FlagRequests : CacheMiss(j, r)
    \/ \E j \in Jobs : ProcessFile(j)
    \/ \E j \in Jobs, reply \in HandlerReplies \cup {[kind |-> "none"]} : Predict(j, reply)
    \/ \E j \in Jobs : Assemble(j)
    \/ \E j \in Jobs : Complete(j)

SpecFlag == Init /\ [][NextFlag]_vars

\* the calls of a run's log made on its files
FileCalls(j) == SelectSeq(calls[j], LAMBDA c : c.fn \in FileStageCalls)

IsPrefix(s, t) == Len(s) <= Len(t) /\ SubSeq(t, 1, Len(s)) = s

\* both runs missed the cache and their requests differ in useOCR alone
FlagTwins(j, o) ==
    /\ Missed(j)
    /\ Missed(o)
    /\ req[j].useOCR
    /\ ~req[o].useOCR
    /\ req[j] = [req[o] EXCEPT !.useOCR = TRUE]

\* C39: two runs on the same files, subject and examName that differ only in
\* useOCR make the same calls on their files and come to the same texts,
\* entries, flags and questions; given the same answer of the prediction
\* engine they build the same result.
C39_UseOcrFlagIgnored ==
    \A j \in Jobs, o \in Jobs :
        FlagTwins(j, o) =>
            /\ IsPrefix(FileCalls(j), FileCalls(o)) \/ IsPrefix(FileCalls(o), FileCalls(j))
            /\ IsPrefix(loc[j].fileResults, loc[o].fileResults)
                    \/ IsPrefix(loc[o].fileResults, loc[j].fileResults)
            /\ IsPrefix(loc[j].texts, loc[o].texts) \/ IsPrefix(loc[o].texts, loc[j].texts)
            /\ loc[j].i = loc[o].i =>
                    /\ FileCalls(j) = FileCalls(o)
                    /\ loc[j].allQuestions = loc[o].allQuestions
                    /\ loc[j].totalPages = loc[o].totalPages
                    /\ loc[j].scannedWarning = loc[o].scannedWarning
                    /\ loc[j].ocrUsed = loc[o].ocrUsed
            /\ (loc[j].result # NULL /\ loc[o].result # NULL
                    /\ loc[j].aiAnalysis = loc[o].aiAnalysis) =>
                    loc[j].result = loc[o].result

C39_TextLayerPdfSameEitherWay ==
    \E j \in Jobs, o \in Jobs :
        /\ FlagTwins(j, o)
        /\ req[j].files = <<paperPdf, pagePng>>
        /\ pc[j] = "done"
        /\ pc[o] = "done"
        /\ resp[j].status = 200
        /\ resp[j].analysis = resp[o].analysis
        /\ FileCalls(j) = FileCalls(o)
        /\ \E p \in DOMAIN FileCalls(o) : FileCalls(o)[p] = Call("extractTextFromScannedPDF", 1)

(***************************************************************************)
(* C40                                                                     *)
(***************************************************************************)
\* the runs that store their result in this step
Storing == {j \in Jobs : pc[j] = "assemble" /\ pc'[j] = "record"}

\* C40: under every interleaving of handler runs, runs with one cacheKey that
\* both missed among them, the cache is only changed by whole entries: a run
\* that stores sets the entry of its key to its complete result and leaves the
\* other entries alone, no other step changes an entry (a lookup may remove an
\* expired one), so the key holds one entry, that of the run that stored last;
\* and a run that completes its job on the miss path completes it with the
\* result it built itself.
C40_ConcurrentRunsConsistent ==
    [][/\ \A j \in Storing :
                /\ Storing = {j}
                /\ loc'[j].result = BuildResult(req[j], loc[j])
                /\ loc[j].cacheKey \in DOMAIN cache'
                /\ cache'[loc[j].cacheKey].data = loc'[j].result
                /\ DOMAIN cache' = DOMAIN cache \cup {loc[j].cacheKey}
                /\ \A k \in DOMAIN cache \ {loc[j].cacheKey} : cache'[k] = cache[k]
       /\ Storing = {} =>
                /\ DOMAIN cache' \subseteq DOMAIN cache
                /\ \A k \in DOMAIN cache' : cache'[k] = cache[k]
       /\ \A j \in Jobs :
                (pc[j] = "record" /\ pc'[j] = "done" /\ jobs'[j].status = "Completed") =>
                    /\ jobs'[j].result = loc[j].result
                    /\ resp'[j].analysis = loc[j].result
                    /\ \A o \in DOMAIN jobs \ {j} : jobs'[o] = jobs[o]]_vars

C40_BothMissedBothCompleted ==
    \E j \in Jobs, o \in Jobs :
        /\ j # o
        /\ now = 0
        /\ Missed(j)
        /\ Missed(o)
        /\ req[j] = req[o]
        /\ pc[j] = "done"
        /\ pc[o] = "done"
        /\ jobs[j].status = "Completed"
        /\ jobs[o].status = "Completed"
        /\ loc[j].result # loc[o].result
        /\ jobs[j].result = loc[j].result
        /\ jobs[o].result = loc[o].result
        /\ cache[loc[j].cacheKey].data = loc[o].result
        /\ Cardinality(DOMAIN cache) = 1
====
